---- MODULE Spec2Model ----
(***************************************************************************)
(* A model of tog (src/tog/tog.c): the view manager and its main loop, the *)
(* log view with its commit loader thread, and the blame view with its     *)
(* annotator thread, all coordinated by the global mutex tog_mutex.        *)
(*                                                                         *)
(* Three state machines share the module's variables:                      *)
(*   SpecView   the view tree driven by view_loop/view_input               *)
(*   Spec       one log view, the UI thread and the loader thread          *)
(*   SpecBlame  one blame view, the UI thread and the annotator thread     *)
(***************************************************************************)
EXTENDS Integers, Sequences, FiniteSets, TLC

\* ------------------------------------------------------------------------
\* Bounds of the model
\* ------------------------------------------------------------------------
MaxViews == 4

NULL == 0

Max(a, b) == IF a > b THEN a ELSE b
Min(a, b) == IF a < b THEN a ELSE b

\* ------------------------------------------------------------------------
\* State
\* ------------------------------------------------------------------------
VARIABLES
    views,                  \* struct tog_view, by view id
    vlist,                  \* the TAILQ of parent views in view_loop
    cur,                    \* view_loop's local `view' (NULL when none)
    done,                   \* view_loop's local `done'
    loop_exited,            \* view_loop has run its done: label and returned
    COLS,                   \* curses' idea of the terminal width
    term_cols,              \* the width TIOCGWINSZ reports
    tog_sigwinch_received,  \* set by the SIGWINCH handler
    fault,                  \* a NULL pointer was dereferenced
    picked                  \* history: view the last dying block picked

viewVars == <<views, vlist, cur, done, loop_exited, COLS, term_cols,
              tog_sigwinch_received, fault, picked>>

\* Log view state
VARIABLES
    s,          \* struct tog_log_view_state, its thread_args, and the
                \* search fields of the log view's struct tog_view
    lt,         \* the loader thread: position and locals of log_thread
    ui,         \* the UI thread: position, call stack and locals
    tog_mutex,  \* owner of tog_mutex: "none", "ui" or "loader"
    hist        \* history: unguarded accesses, last queue mutation, threads

logVars == <<s, lt, ui, tog_mutex, hist>>

VARIABLES
    blame,      \* struct tog_blame_view_state with its struct tog_blame
    bt          \* the annotator thread: blame_thread inside got_blame

blameVars == <<blame, bt>>

VARIABLES
    key,        \* get_compound_key: its locals c and n, and view->count
    pack,       \* lib/pack.c: the index or pack file read and the locals of
                \* the function that reads it
    dv          \* struct tog_diff_view_state, the view's search fields and
                \* the locals of search_next_diff_view

pureVars == <<key, pack, dv>>

ViewIds == 1..MaxViews

ViewTypes == {"diff", "log", "blame", "tree", "ref"}

\* Terminal widths: one below and one above the 120 column split threshold.
TermWidths == {80, 160}

\* calloc'ed struct tog_view slot that holds no view
NoView == [alive |-> FALSE, type |-> "none", parent |-> NULL, child |-> NULL,
           focussed |-> FALSE, focus_child |-> FALSE, begin_x |-> 0,
           log_view |-> NULL]

view_open(type, begin_x) ==
    [alive |-> TRUE, type |-> type, parent |-> NULL, child |-> NULL,
     focussed |-> FALSE, focus_child |-> FALSE, begin_x |-> begin_x,
     log_view |-> NULL]

view_split_begin_x(begin_x, cols) ==
    IF begin_x > 0 \/ cols < 120 THEN 0
    ELSE cols - Max(cols \div 2, 80)

view_is_parent_view(vs, v) == vs[v].parent = NULL

view_is_splitscreen(vs, v) == vs[v].begin_x > 0

\* view_resize: of the fields modelled only the child's begin_x changes
\* (through view_fullscreen/view_splitscreen of the child).
view_resize(vs, v, cols) ==
    LET c == vs[v].child IN
    IF c = NULL THEN vs
    ELSE LET bx == IF vs[c].focussed
                   THEN view_split_begin_x(vs[v].begin_x, cols)
                   ELSE vs[c].begin_x
         IN [vs EXCEPT ![c].begin_x =
                 IF bx = 0 THEN 0 ELSE view_split_begin_x(0, cols)]

view_fullscreen(vs, v, cols) ==
    view_resize([vs EXCEPT ![v].begin_x = 0], v, cols)

view_splitscreen(vs, v, cols) ==
    view_resize([vs EXCEPT ![v].begin_x = view_split_begin_x(0, cols)],
                v, cols)

view_close_leaves_child(vs, v) ==
    [w \in ViewIds |-> IF w = v THEN NoView ELSE vs[w]]

\* view_close: closes the child first, then the view itself
view_close(vs, v) ==
    LET c == vs[v].child IN
    [w \in ViewIds |-> IF w = v \/ (c # NULL /\ w = c) THEN NoView
                       ELSE vs[w]]

view_close_child(vs, v) ==
    IF vs[v].child = NULL THEN vs
    ELSE [w \in ViewIds |-> IF w = vs[v].child THEN NoView
                            ELSE IF w = v THEN [vs[v] EXCEPT !.child = NULL]
                            ELSE vs[w]]

view_set_child(vs, v, c, cols) ==
    view_resize([vs EXCEPT ![v].child = c, ![c].parent = v], v, cols)

\* The resize block of view_input (SIGWINCH/SIGCONT pending)
ResizeAll(vs, lst, cols) ==
    LET RECURSIVE Go(_, _)
        Go(w, i) == IF i > Len(lst) THEN w
                    ELSE Go(view_resize(w, lst[i], cols), i + 1)
    IN Go(vs, 1)

\* case '\t' of view_input
TabFocus_NoClear(vs, v, cols) ==
    IF vs[v].child # NULL THEN
        [vs EXCEPT ![vs[v].child].focussed = TRUE,
                   ![v].focus_child = TRUE]
    ELSE IF vs[v].parent # NULL THEN
        LET p == vs[v].parent
            w == [vs EXCEPT ![p].focussed = TRUE,
                            ![p].focus_child = FALSE]
        IN IF ~view_is_splitscreen(w, v) THEN view_fullscreen(w, p, cols)
           ELSE w
    ELSE vs

TabFocus(vs, v, cols) ==
    IF vs[v].child # NULL THEN
        [vs EXCEPT ![v].focussed = FALSE,
                   ![vs[v].child].focussed = TRUE,
                   ![v].focus_child = TRUE]
    ELSE IF vs[v].parent # NULL THEN
        LET p == vs[v].parent
            w == [vs EXCEPT ![v].focussed = FALSE,
                            ![p].focussed = TRUE,
                            ![p].focus_child = FALSE]
        IN IF ~view_is_splitscreen(w, v) THEN view_fullscreen(w, p, cols)
           ELSE w
    ELSE vs

\* case 'F' of view_input
ToggleFullscreen(vs, v, cols) ==
    IF view_is_parent_view(vs, v) THEN
        IF vs[v].child = NULL THEN vs
        ELSE LET c == vs[v].child IN
             IF view_is_splitscreen(vs, c)
             THEN view_fullscreen([vs EXCEPT ![v].focussed = FALSE,
                                             ![c].focussed = TRUE], c, cols)
             ELSE view_splitscreen(vs, c, cols)
    ELSE
        LET p == vs[v].parent IN
        IF view_is_splitscreen(vs, v)
        THEN view_fullscreen([vs EXCEPT ![p].focussed = FALSE,
                                        ![v].focussed = TRUE], v, cols)
        ELSE view_resize(view_splitscreen(vs, v, cols), p, cols)

\* The view types a view's input handler can open, with the key that does:
\* log: Enter, t, r; tree: l, r, Enter; ref: Enter, t; blame: Enter.
OpenTargets(type) ==
    CASE type = "log"   -> {"diff", "tree", "ref"}
      [] type = "tree"  -> {"log", "ref", "blame"}
      [] type = "ref"   -> {"log", "tree"}
      [] type = "blame" -> {"diff"}
      [] OTHER          -> {}

FreeIds(vs) == {w \in ViewIds : ~vs[w].alive}

NewId(vs) == CHOOSE w \in FreeIds(vs) : \A x \in FreeIds(vs) : w <= x

\* The view-opening cases of input_log_view, input_tree_view, input_ref_view
\* and input_blame_view.  Returns the views and *new_view.
OpenFrom(vs, v, type, cols) ==
    LET n  == NewId(vs)
        bx == IF view_is_parent_view(vs, v)
              THEN view_split_begin_x(vs[v].begin_x, cols) ELSE 0
        nv == [view_open(type, bx) EXCEPT
                  !.focussed = TRUE,
                  !.log_view = IF vs[v].type = "log" /\ type = "diff"
                               THEN v ELSE NULL]
        w0 == [vs EXCEPT ![v].focussed = FALSE, ![n] = nv]
    IN IF view_is_parent_view(vs, v)
       THEN [views |-> [view_set_child(view_close_child(w0, v), v, n, cols)
                           EXCEPT ![v].focus_child = TRUE],
             new_view |-> NULL]
       ELSE [views |-> w0, new_view |-> n]

SeqRemove(sq, x) == SelectSeq(sq, LAMBDA y : y # x)

IndexOf(sq, x) == CHOOSE i \in 1..Len(sq) : sq[i] = x

CloseDying_KeepBit(vs, lst, v, new_view, cols) ==
    LET isparent == view_is_parent_view(vs, v)
        prev == IF isparent
                THEN (IF IndexOf(lst, v) > 1 THEN lst[IndexOf(lst, v) - 1]
                      ELSE NULL)
                ELSE vs[v].parent
        w1 == IF ~isparent
              THEN view_resize([vs EXCEPT ![vs[v].parent].child = NULL],
                               vs[v].parent, cols)
              ELSE vs
        l1 == IF isparent THEN SeqRemove(lst, v) ELSE lst
        w2 == view_close(w1, v)
        pick == IF prev # NULL THEN prev
                ELSE IF l1 # <<>> THEN l1[Len(l1)] ELSE NULL
    IN IF new_view # NULL \/ pick = NULL
       THEN [views |-> w2, vlist |-> l1, view |-> NULL, fault |-> FALSE,
             pick |-> NULL]
       ELSE IF w2[pick].focus_child
            THEN IF w2[pick].child = NULL
                 THEN [views |-> w2, vlist |-> l1, view |-> NULL,
                       fault |-> TRUE, pick |-> pick]
                 ELSE [views |-> [w2 EXCEPT ![w2[pick].child].focussed = TRUE],
                       vlist |-> l1, view |-> w2[pick].child, fault |-> FALSE,
                       pick |-> pick]
            ELSE [views |-> [w2 EXCEPT ![pick].focussed = TRUE],
                  vlist |-> l1, view |-> pick, fault |-> FALSE,
                  pick |-> pick]

\* if (view->dying) { ... } of view_loop
CloseDying(vs, lst, v, new_view, cols) ==
    LET isparent == view_is_parent_view(vs, v)
        prev == IF isparent
                THEN (IF IndexOf(lst, v) > 1 THEN lst[IndexOf(lst, v) - 1]
                      ELSE NULL)
                ELSE vs[v].parent
        w1 == IF ~isparent
              THEN view_resize([vs EXCEPT ![vs[v].parent].child = NULL,
                                          ![vs[v].parent].focus_child = FALSE],
                               vs[v].parent, cols)
              ELSE vs
        l1 == IF isparent THEN SeqRemove(lst, v) ELSE lst
        w2 == view_close(w1, v)
        pick == IF prev # NULL THEN prev
                ELSE IF l1 # <<>> THEN l1[Len(l1)] ELSE NULL
    IN IF new_view # NULL \/ pick = NULL
       THEN [views |-> w2, vlist |-> l1, view |-> NULL, fault |-> FALSE,
             pick |-> NULL]
       ELSE IF w2[pick].focus_child
            THEN IF w2[pick].child = NULL
                 THEN [views |-> w2, vlist |-> l1, view |-> NULL,
                       fault |-> TRUE, pick |-> pick]
                 ELSE [views |-> [w2 EXCEPT ![w2[pick].child].focussed = TRUE],
                       vlist |-> l1, view |-> w2[pick].child, fault |-> FALSE,
                       pick |-> pick]
            ELSE [views |-> [w2 EXCEPT ![pick].focussed = TRUE],
                  vlist |-> l1, view |-> pick, fault |-> FALSE,
                  pick |-> pick]

InstallNew_evict_first(vs, lst, new_view) ==
    IF lst = <<>>
    THEN [views |-> vs, vlist |-> Append(lst, new_view)]
    ELSE [views |-> view_close(vs, lst[1]),
          vlist |-> Append(SeqRemove(lst, lst[1]), new_view)]

\* if (new_view) { ... } of view_loop: only one parent view per type
InstallNew(vs, lst, new_view) ==
    LET same == {i \in 1..Len(lst) : vs[lst[i]].type = vs[new_view].type}
        old  == IF same = {} THEN NULL
                ELSE lst[CHOOSE i \in same : \A j \in same : i <= j]
    IN IF old = NULL
       THEN [views |-> vs, vlist |-> Append(lst, new_view)]
       ELSE [views |-> view_close(vs, old),
             vlist |-> Append(SeqRemove(lst, old), new_view)]

\* if (view) { ... } of view_loop: continue with whichever of the view and
\* its parent/child holds the focus
PickFocussed(vs, v) ==
    IF v = NULL THEN NULL
    ELSE IF view_is_parent_view(vs, v)
         THEN (IF vs[v].child # NULL /\ vs[vs[v].child].focussed
               THEN vs[v].child ELSE v)
         ELSE (IF vs[v].parent # NULL /\ vs[vs[v].parent].focussed
               THEN vs[v].parent ELSE v)

\* The part of one view_loop iteration that follows view_input
LoopTail(vs, v, dying, new_view, cols) ==
    LET a == IF dying THEN CloseDying(vs, vlist, v, new_view, cols)
             ELSE [views |-> vs, vlist |-> vlist, view |-> v, fault |-> FALSE,
                   pick |-> NULL]
        b == IF new_view # NULL THEN InstallNew(a.views, a.vlist, new_view)
             ELSE [views |-> a.views, vlist |-> a.vlist]
        nview == IF new_view # NULL THEN new_view ELSE a.view
    IN /\ views' = b.views
       /\ vlist' = b.vlist
       /\ cur' = PickFocussed(b.views, nview)
       /\ fault' = (fault \/ a.fault)
       /\ picked' = a.pick

\* The SIGWINCH/SIGCONT block at the head of the key dispatch in view_input
AfterResize(vs) ==
    IF tog_sigwinch_received THEN ResizeAll(vs, vlist, term_cols) ELSE vs

ColsAfterResize == IF tog_sigwinch_received THEN term_cols ELSE COLS

LoopRunning == cur # NULL /\ vlist # <<>> /\ ~done /\ ~loop_exited /\ ~fault

ResizeDone ==
    /\ COLS' = ColsAfterResize
    /\ tog_sigwinch_received' = FALSE
    /\ UNCHANGED <<term_cols, loop_exited, logVars, blameVars, pureVars>>

\* tog_sigwinch: the terminal changed size
Sigwinch ==
    /\ ~loop_exited
    /\ \E c \in TermWidths :
          /\ c # term_cols
          /\ term_cols' = c
    /\ tog_sigwinch_received' = TRUE
    /\ UNCHANGED <<views, vlist, cur, done, loop_exited, COLS, fault, picked,
                   logVars, blameVars, pureVars>>

KeyTab ==
    /\ LoopRunning
    /\ LoopTail(TabFocus(AfterResize(views), cur, ColsAfterResize),
                cur, FALSE, NULL, ColsAfterResize)
    /\ ResizeDone
    /\ UNCHANGED done

KeyF ==
    /\ LoopRunning
    /\ LoopTail(ToggleFullscreen(AfterResize(views), cur, ColsAfterResize),
                cur, FALSE, NULL, ColsAfterResize)
    /\ ResizeDone
    /\ UNCHANGED done

\* case 'q': the view's input handler runs, then the view is marked dying
KeyQ ==
    /\ LoopRunning
    /\ LoopTail(AfterResize(views), cur, TRUE, NULL, ColsAfterResize)
    /\ ResizeDone
    /\ UNCHANGED done

\* case 'Q'
KeyQuitAll ==
    /\ LoopRunning
    /\ LoopTail(AfterResize(views), cur, FALSE, NULL, ColsAfterResize)
    /\ ResizeDone
    /\ done' = TRUE

\* Enter, t, r, l, dispatched to the focussed view's input handler
KeyOpen ==
    /\ LoopRunning
    /\ FreeIds(views) # {}
    /\ \E type \in OpenTargets(views[cur].type) :
          LET r == OpenFrom(AfterResize(views), cur, type, ColsAfterResize)
          IN LoopTail(r.views, cur, FALSE, r.new_view, ColsAfterResize)
    /\ ResizeDone
    /\ UNCHANGED done

\* A key that changes nothing in the view tree (wgetch timeout, motion keys)
KeyOther ==
    /\ LoopRunning
    /\ tog_sigwinch_received
    /\ LoopTail(AfterResize(views), cur, FALSE, NULL, ColsAfterResize)
    /\ ResizeDone
    /\ UNCHANGED done

\* The done: label of view_loop, reached when the loop condition fails
LoopExit ==
    /\ ~loop_exited
    /\ (vlist = <<>> \/ done)
    /\ views' = [w \in ViewIds |-> NoView]
    /\ vlist' = <<>>
    /\ cur' = NULL
    /\ loop_exited' = TRUE
    /\ picked' = NULL
    /\ UNCHANGED <<done, COLS, term_cols, tog_sigwinch_received, fault,
                   logVars, blameVars, pureVars>>

\* State at entry of view_loop's while loop: cmd_log, cmd_diff, cmd_blame,
\* cmd_tree or cmd_ref opened the first view, view_loop gave it the focus.
ViewInit ==
    /\ \E type \in ViewTypes, c \in TermWidths :
          /\ views = [w \in ViewIds |->
                         IF w = 1
                         THEN [view_open(type, 0) EXCEPT !.focussed = TRUE]
                         ELSE NoView]
          /\ COLS = c
          /\ term_cols = c
    /\ vlist = <<1>>
    /\ cur = 1
    /\ done = FALSE
    /\ loop_exited = FALSE
    /\ tog_sigwinch_received = FALSE
    /\ fault = FALSE
    /\ picked = NULL

ViewNext ==
    \/ Sigwinch
    \/ KeyTab
    \/ KeyF
    \/ KeyQ
    \/ KeyQuitAll
    \/ KeyOpen
    \/ KeyOther
    \/ LoopExit

\* ------------------------------------------------------------------------
\* Log view, UI thread and loader thread
\* ------------------------------------------------------------------------
MaxCommits == 3
ViewLines == 2
MaxNeeded == 3
MaxPathDepth == 1       \* directory components of in_repo_path
MaxCount == 2           \* numeric prefix typed before a motion key

TOG_SEARCH_FORWARD == 1
TOG_SEARCH_BACKWARD == 2
TOG_SEARCH_HAVE_MORE == 1
TOG_SEARCH_NO_MORE == 2
TOG_SEARCH_HAVE_NONE == 3

CommitIds == 1..MaxCommits

\* Keys read by wgetch in the log view; ERR is the halfdelay timeout.
LogKeys == {"j", "k", "G", "KEY_BACKSPACE", "CTRL_L", "B", "q", "Q",
            "/", "n", "N", "ERR"}

\* Outcomes of regcomp on the pattern typed after '/': the set of commits
\* match_commit accepts.
Patterns == {{2}, {2, MaxCommits}}

\* Queue entries are named by their position in the queue; NULL is 0.
TAILQ_FIRST(q) == IF q = <<>> THEN NULL ELSE 1
TAILQ_LAST(q) == Len(q)
TAILQ_NEXT(q, e) == IF e < Len(q) THEN e + 1 ELSE NULL
TAILQ_PREV(q, e) == e - 1

alloc_commit_queue_entry(id) == [id |-> id, idx |-> 0]

\* queue_commits, the statements under the mutex (lines 1730-1742)
queue_commits_headinsert(st, id) ==
    LET entry == [alloc_commit_queue_entry(id) EXCEPT !.idx = st.ncommits]
        q == <<entry>> \o st.commits
        have_match == id \in st.regex
    IN [st EXCEPT !.commits = q,
                  !.ncommits = @ + 1,
                  !.search_next_done =
                      IF st.searching = TOG_SEARCH_FORWARD /\ @ = 0
                         /\ have_match
                      THEN TOG_SEARCH_HAVE_MORE ELSE @]

queue_commits_locked(st, id) ==
    LET entry == [alloc_commit_queue_entry(id) EXCEPT !.idx = st.ncommits]
        q == Append(st.commits, entry)
        have_match == id \in st.regex
    IN [st EXCEPT !.commits = q,
                  !.ncommits = @ + 1,
                  !.search_next_done =
                      IF st.searching = TOG_SEARCH_FORWARD /\ @ = 0
                         /\ have_match
                      THEN TOG_SEARCH_HAVE_MORE ELSE @]

\* pop_commit applied until the queue is empty
free_commits_keepcount(st) == [st EXCEPT !.commits = <<>>]

free_commits(st) ==
    LET RECURSIVE pop(_)
        pop(x) == IF x.commits = <<>> THEN x
                  ELSE pop([x EXCEPT !.commits = Tail(@),
                                     !.ncommits = @ - 1])
    IN pop(st)

select_commit_keeps(st) == st

select_commit(st) ==
    IF st.first_displayed_entry # NULL /\ st.selected >= 0
       /\ st.first_displayed_entry + st.selected <= Len(st.commits)
    THEN [st EXCEPT !.selected_entry = st.first_displayed_entry + st.selected]
    ELSE st

\* draw_commits: the display loop leaves last_displayed_entry behind
draw_commits(st) ==
    IF ViewLines <= 1 THEN st
    ELSE [st EXCEPT !.last_displayed_entry =
             IF st.first_displayed_entry = NULL THEN NULL
             ELSE Min(st.first_displayed_entry + ViewLines - 2,
                      Len(st.commits))]

log_scroll_up(st, maxscroll) ==
    IF st.first_displayed_entry = TAILQ_FIRST(st.commits) THEN st
    ELSE LET RECURSIVE up(_, _)
             up(e, n) == IF e # NULL /\ n < maxscroll
                            /\ TAILQ_PREV(st.commits, e) # NULL
                         THEN up(TAILQ_PREV(st.commits, e), n + 1)
                         ELSE e
         IN [st EXCEPT !.first_displayed_entry =
                          up(st.first_displayed_entry, 0)]

\* the do { } while (++nscrolled < maxscroll) loop of log_scroll_down
log_scroll_down_loop(st, maxscroll) ==
    LET RECURSIVE down(_, _)
        down(x, n) ==
            LET l == TAILQ_NEXT(x.commits, x.last_displayed_entry)
                f == TAILQ_NEXT(x.commits, x.first_displayed_entry)
            IN IF l = NULL THEN x
               ELSE IF f = NULL THEN [x EXCEPT !.last_displayed_entry = l]
               ELSE LET y == [x EXCEPT !.last_displayed_entry = l,
                                       !.first_displayed_entry = f]
                    IN IF n + 1 < maxscroll THEN down(y, n + 1) ELSE y
    IN down(st, 0)

\* log_scroll_down asks the loader for commits and waits (lines 2020-2030)
scroll_needs_commits(st, maxscroll) ==
    /\ st.last_displayed_entry # NULL
    /\ st.ncommits < st.commits[st.last_displayed_entry].idx + 1 + maxscroll
    /\ ~st.log_complete

log_scroll_down_nowait(st, maxscroll) ==
    IF st.last_displayed_entry = NULL THEN st
    ELSE log_scroll_down_loop(st, maxscroll)

input_log_view_load_all_unselected(st, ch) ==
    IF ch = "KEY_BACKSPACE" THEN [st EXCEPT !.load_all = FALSE]
    ELSE IF st.log_complete
    THEN [log_scroll_down_nowait([st EXCEPT !.load_all = FALSE], st.ncommits)
             EXCEPT !.selected = Min(ViewLines - 2, st.ncommits - 1)]
    ELSE st

\* input_log_view while thread_args.load_all is set (lines 2632-2643)
input_log_view_load_all(st, ch) ==
    IF ch = "KEY_BACKSPACE" THEN [st EXCEPT !.load_all = FALSE]
    ELSE IF st.log_complete
    THEN select_commit(
            [log_scroll_down_nowait([st EXCEPT !.load_all = FALSE],
                                    st.ncommits)
                EXCEPT !.selected = Min(ViewLines - 2, st.ncommits - 1)])
    ELSE st

\* case 'G' / KEY_END when the log is complete (lines 2738-2749)
input_log_view_end(st) ==
    LET n == Min(ViewLines - 1, Len(st.commits))
        f == IF n = 0 THEN st.first_displayed_entry
             ELSE Len(st.commits) - n + 1
    IN select_commit([st EXCEPT !.first_displayed_entry = f,
                                !.selected = IF n > 0 THEN n - 1 ELSE 0])

\* pthread_cond_signal(&need_commits): wakes the loader if it waits
signal_need_commits_lost(t) == t

signal_need_commits(t) ==
    IF t.pc = "lt_wait" THEN [t EXCEPT !.pc = "lt_woken"] ELSE t

\* pthread_cond_signal(&commit_loaded): wakes the UI thread if it waits
signal_commit_loaded(u) ==
    IF u.pc = "cw" THEN [u EXCEPT !.pc = "cw_woken"] ELSE u

\* show_log_view creates the loader only when there is none
show_creates_always(st) == TRUE

show_creates(st) == ~st.thread

\* view_loop after view_input returned (lines 1142-1222): a dying view is
\* closed, otherwise the view is shown again
loop_tail(u) ==
    IF u.dying
    THEN [u EXCEPT !.pc = "stop", !.k = <<"close_rest", "exit">>,
                   !.ch = "none"]
    ELSE [u EXCEPT !.pc = "show", !.k = <<"loop_cond">>, !.ch = "none"]

\* return to the caller's continuation
Return(u) ==
    LET r == [u EXCEPT !.pc = Head(u.k), !.k = Tail(u.k)]
    IN IF r.pc = "loop_tail" THEN loop_tail(r) ELSE r

Call(u, pc, ret) == [u EXCEPT !.pc = pc, !.k = ret \o u.k]

\* the flags the loader's latest step touched without holding tog_mutex
Unguarded(names) ==
    [hist EXCEPT !.unguarded = names]

Mutated(op, by) ==
    [hist EXCEPT !.last_mut = [op |-> op, by |-> by,
                               held |-> tog_mutex = by,
                               joined |-> lt.pc = "none"]]

\* tog_fatal_signal_received (lines 636-641) tests tog_sigint_received twice
tog_fatal_signal_received(st) ==
    st.tog_sigpipe_received
        \/ st.tog_sigint_received \/ st.tog_sigint_received

\* ---- loader thread: log_thread and queue_commits ----

\* the loop condition of log_thread (line 2235) when a round starts, then
\* got_commit_graph_iter_next (lines 1709-1712); ITER_COMPLETED makes
\* log_thread set done (lines 2237-2241)
L_IterNext ==
    /\ lt.pc \in {"lt_top", "qc_iter"}
    /\ IF lt.pc = "lt_top" /\ tog_fatal_signal_received(s)
       THEN /\ lt' = [lt EXCEPT !.pc = "lt_exit"]
            /\ s' = s
       ELSE IF s.graph_pos < s.graph_len
       THEN /\ s' = [s EXCEPT !.graph_pos = @ + 1]
            /\ lt' = [lt EXCEPT !.pc = "qc_lock", !.id = s.graph_pos + 1]
       ELSE /\ lt' = [lt EXCEPT !.pc = "lt_lock", !.done = TRUE]
            /\ s' = s
    /\ hist' = Unguarded({})
    /\ UNCHANGED <<ui, tog_mutex, viewVars, blameVars, pureVars>>

\* pthread_mutex_lock in queue_commits (line 1723)
L_QueueLock ==
    /\ lt.pc = "qc_lock"
    /\ tog_mutex = "none"
    /\ tog_mutex' = "loader"
    /\ lt' = [lt EXCEPT !.pc = "qc_append"]
    /\ hist' = Unguarded({})
    /\ UNCHANGED <<s, ui, viewVars, blameVars, pureVars>>

\* lines 1730-1747: append, match, unlock
L_Append ==
    /\ lt.pc = "qc_append"
    /\ s' = queue_commits_locked(s, lt.id)
    /\ hist' = [Mutated("insert", "loader") EXCEPT
                   !.unguarded = {},
                   !.found = IF s.search_next_done = 0
                                /\ s'.search_next_done = TOG_SEARCH_HAVE_MORE
                             THEN Len(s'.commits) ELSE @]
    /\ tog_mutex' = "none"
    /\ lt' = [lt EXCEPT !.pc = "qc_while"]
    /\ UNCHANGED <<ui, viewVars, blameVars, pureVars>>

\* the loop condition of queue_commits (line 1750), read without the mutex;
\* on return log_thread goes on at line 2242
L_QueueWhile ==
    /\ lt.pc = "qc_while"
    /\ hist' = Unguarded({"searching"} \cup
                  (IF s.searching = TOG_SEARCH_FORWARD
                   THEN {"search_next_done"} ELSE {}))
    /\ lt' = [lt EXCEPT !.pc =
                 IF s.searching = TOG_SEARCH_FORWARD /\ s.search_next_done = 0
                 THEN "qc_iter" ELSE "lt_dec"]
    /\ UNCHANGED <<s, ui, tog_mutex, viewVars, blameVars, pureVars>>

\* else if (a->commits_needed > 0 && !a->load_all) a->commits_needed--;
\* (lines 2242-2243), without the mutex: the load ...
L_DecRead ==
    /\ lt.pc = "lt_dec"
    /\ hist' = Unguarded({"commits_needed"} \cup
                  (IF s.commits_needed > 0 THEN {"load_all"} ELSE {}))
    /\ lt' = IF s.commits_needed > 0 /\ ~s.load_all
             THEN [lt EXCEPT !.pc = "lt_dec_wr", !.tmp = s.commits_needed - 1]
             ELSE [lt EXCEPT !.pc = "lt_lock"]
    /\ UNCHANGED <<s, ui, tog_mutex, viewVars, blameVars, pureVars>>

\* ... and the store of the decrement
L_DecWrite ==
    /\ lt.pc = "lt_dec_wr"
    /\ s' = [s EXCEPT !.commits_needed = lt.tmp]
    /\ lt' = [lt EXCEPT !.pc = "lt_lock", !.tmp = 0]
    /\ hist' = Unguarded({})
    /\ UNCHANGED <<ui, tog_mutex, viewVars, blameVars, pureVars>>

\* pthread_mutex_lock in log_thread (line 2245)
L_Lock ==
    /\ lt.pc = "lt_lock"
    /\ tog_mutex = "none"
    /\ tog_mutex' = "loader"
    /\ lt' = [lt EXCEPT !.pc = "lt_locked"]
    /\ hist' = Unguarded({})
    /\ UNCHANGED <<s, ui, viewVars, blameVars, pureVars>>

need_commits_wait_never(st) == FALSE

\* else if (a->commits_needed == 0 && !a->load_all): the loader waits on
\* need_commits (lines 2265-2270)
need_commits_wait(st) == st.commits_needed = 0 /\ ~st.load_all

\* lines 2250-2283 up to the wait or the unlock
L_Publish ==
    /\ lt.pc = "lt_locked"
    /\ LET d == lt.done \/ s.quit
           s1 == IF ~s.quit /\ s.first_displayed_entry = NULL
                 THEN [s EXCEPT
                         !.first_displayed_entry = TAILQ_FIRST(s.commits),
                         !.selected_entry = TAILQ_FIRST(s.commits)]
                 ELSE s
       IN /\ ui' = signal_commit_loaded(ui)
          /\ IF d
             THEN /\ s' = [s1 EXCEPT !.commits_needed = 0]
                  /\ lt' = [lt EXCEPT !.done = TRUE, !.pc = "lt_exit"]
             ELSE /\ s' = s1
                  /\ lt' = [lt EXCEPT !.pc =
                               IF need_commits_wait(s1)
                               THEN "lt_wait" ELSE "lt_top"]
    /\ tog_mutex' = "none"
    /\ hist' = Unguarded({})
    /\ UNCHANGED <<viewVars, blameVars, pureVars>>

\* return from pthread_cond_wait(&need_commits): the mutex is taken again,
\* quit is checked, the mutex released (lines 2270-2283)
quit_seen(st) == st.quit

L_Woken ==
    /\ lt.pc = "lt_woken"
    /\ tog_mutex = "none"
    /\ lt' = IF quit_seen(s) THEN [lt EXCEPT !.done = TRUE, !.pc = "lt_exit"]
             ELSE [lt EXCEPT !.pc = "lt_top"]
    /\ hist' = Unguarded({})
    /\ UNCHANGED <<s, ui, tog_mutex, viewVars, blameVars, pureVars>>

\* a->log_complete = 1 after the loop (line 2285), without the mutex
L_Exit ==
    /\ lt.pc = "lt_exit"
    /\ s' = [s EXCEPT !.log_complete = TRUE]
    /\ hist' = Unguarded({"log_complete"})
    /\ lt' = [lt EXCEPT !.pc = "exited"]
    /\ UNCHANGED <<ui, tog_mutex, viewVars, blameVars, pureVars>>

LoaderNext ==
    \/ L_IterNext
    \/ L_QueueLock
    \/ L_Append
    \/ L_QueueWhile
    \/ L_DecRead
    \/ L_DecWrite
    \/ L_Lock
    \/ L_Publish
    \/ L_Woken
    \/ L_Exit

\* ---- UI thread: view_loop, view_input and the log view's handlers ----

\* view_loop up to the first view->show (lines 1123-1131)
UI_LoopEnter ==
    /\ ui.pc = "vl_start"
    /\ tog_mutex = "none"
    /\ tog_mutex' = "ui"
    /\ ui' = [ui EXCEPT !.pc = "show", !.k = <<"init_shown">>]
    /\ UNCHANGED <<s, lt, hist, viewVars, blameVars, pureVars>>

\* show_log_view (lines 2607-2619): pthread_create when there is no loader
UI_Show ==
    /\ ui.pc = "show"
    /\ IF show_creates(s)
       THEN /\ s' = [s EXCEPT !.thread = TRUE]
            /\ lt' = [pc |-> "lt_top", done |-> FALSE, id |-> 0, tmp |-> 0]
            /\ hist' = [hist EXCEPT !.loaders = @ + 1,
                                    !.requested = s.commits_needed]
            /\ ui' = IF s.commits_needed > 0
                     THEN Call(ui, "trigger", <<"draw">>)
                     ELSE [ui EXCEPT !.pc = "draw"]
       ELSE /\ ui' = [ui EXCEPT !.pc = "draw"]
            /\ UNCHANGED <<s, lt, hist>>
    /\ UNCHANGED <<tog_mutex, viewVars, blameVars, pureVars>>

\* trigger_log_thread(view, 1): one turn of its loop up to the wait on
\* commit_loaded (lines 1972-1995)
UI_Trigger ==
    /\ ui.pc = "trigger"
    /\ IF (s.commits_needed > 0 \/ s.load_all) /\ ~s.log_complete
       THEN /\ lt' = signal_need_commits(lt)
            /\ s' = draw_commits(s)
            /\ tog_mutex' = "none"
            /\ ui' = [ui EXCEPT !.pc = "cw"]
       ELSE /\ ui' = Return(ui)
            /\ UNCHANGED <<s, lt, tog_mutex>>
    /\ UNCHANGED <<hist, viewVars, blameVars, pureVars>>

\* pthread_cond_wait(&commit_loaded) returns with the mutex held, the log
\* view is drawn again (lines 1995-2003)
UI_CondWake ==
    /\ ui.pc = "cw_woken"
    /\ tog_mutex = "none"
    /\ tog_mutex' = "ui"
    /\ s' = draw_commits(s)
    /\ ui' = [ui EXCEPT !.pc = "trigger"]
    /\ UNCHANGED <<lt, hist, viewVars, blameVars, pureVars>>

\* return draw_commits(view) (line 2619)
UI_Draw ==
    /\ ui.pc = "draw"
    /\ s' = draw_commits(s)
    /\ ui' = Return(ui)
    /\ UNCHANGED <<lt, tog_mutex, hist, viewVars, blameVars, pureVars>>

\* err = view->show(view); if (err) return err; (lines 1131-1133), and the
\* loop condition for the first time (line 1136)
UI_InitShown ==
    /\ ui.pc = "init_shown"
    /\ \E err \in BOOLEAN :
          ui' = IF err THEN [ui EXCEPT !.pc = "returned"]
                ELSE IF tog_fatal_signal_received(s)
                THEN [ui EXCEPT !.pc = "stop", !.k = <<"close_rest", "exit">>]
                ELSE [ui EXCEPT !.pc = "input"]
    /\ UNCHANGED <<s, lt, tog_mutex, hist, viewVars, blameVars, pureVars>>

\* if ((view->count && --view->count == 0) || !view->count) (line 970):
\* the count left and whether the terminal is read
view_input_count_early(c) ==
    [count |-> IF c > 0 THEN c - 1 ELSE 0, read |-> c <= 2]

view_input_count(c) ==
    [count |-> IF c > 0 THEN c - 1 ELSE 0, read |-> c <= 1]

\* the record of the numeric prefix in progress: the count typed, the
\* dispatches of its key so far, whether the view reset the count, the
\* index of the selected commit when the prefix was typed
NoPrefix(h) ==
    [h EXCEPT !.prefix = 0, !.ndisp = 0, !.reset = FALSE, !.start = 0]

\* view_input up to the release of the mutex and the decision whether wgetch
\* is called (lines 943-970)
UI_Input ==
    /\ ui.pc = "input"
    /\ LET clear == s.search_next_done \in
                      {TOG_SEARCH_NO_MORE, TOG_SEARCH_HAVE_NONE}
           s1 == IF clear
                 THEN [s EXCEPT !.search_next_done = TOG_SEARCH_HAVE_MORE]
                 ELSE s
           c0 == IF clear THEN 0 ELSE ui.count
           r == view_input_count(c0)
           h == [hist EXCEPT !.bs_root = FALSE, !.fresh = FALSE,
                             !.scan = <<>>, !.found = NULL,
                             !.end_done = FALSE]
       IN /\ s' = s1
          /\ IF s1.searching # 0 /\ s1.search_next_done = 0
             THEN /\ ui' = [ui EXCEPT !.pc = "yield", !.count = c0]
                  /\ hist' = h
             ELSE IF r.read
             THEN /\ ui' = [ui EXCEPT !.pc = "wgetch", !.count = r.count,
                                      !.vch = "none"]
                  /\ hist' = NoPrefix(h)
             ELSE /\ ui' = [ui EXCEPT !.pc = "repeat", !.count = r.count]
                  /\ hist' = h
    /\ tog_mutex' = "none"
    /\ UNCHANGED <<lt, viewVars, blameVars, pureVars>>

\* sched_yield, pthread_mutex_lock, view->search_next (lines 954-960)
UI_Yield ==
    /\ ui.pc = "yield"
    /\ tog_mutex = "none"
    /\ tog_mutex' = "ui"
    /\ ui' = Call(ui, "search_next", <<"loop_tail">>)
    /\ UNCHANGED <<s, lt, hist, viewVars, blameVars, pureVars>>

\* wgetch returns 'q': the mutex is taken again (lines 971-977), case 'q' of
\* view_input forwards the key, input_log_view sets quit, the view is dying
UI_KeyQ ==
    /\ ui.pc = "wgetch" /\ tog_mutex = "none" /\ "q" \in LogKeys
    /\ tog_mutex' = "ui"
    /\ s' = IF s.load_all THEN input_log_view_load_all(s, "q")
            ELSE [s EXCEPT !.quit = TRUE]
    /\ ui' = loop_tail([ui EXCEPT !.dying = TRUE])
    /\ UNCHANGED <<lt, hist, viewVars, blameVars, pureVars>>

\* case 'Q' of view_input
UI_KeyQuitAll ==
    /\ ui.pc = "wgetch" /\ tog_mutex = "none" /\ "Q" \in LogKeys
    /\ tog_mutex' = "ui"
    /\ ui' = loop_tail([ui EXCEPT !.done = TRUE])
    /\ UNCHANGED <<s, lt, hist, viewVars, blameVars, pureVars>>

\* default: of view_input for the motion keys
UI_KeyMotion ==
    /\ ui.pc = "wgetch" /\ tog_mutex = "none"
    /\ tog_mutex' = "ui"
    /\ \E ch \in {"j", "k"} \cap LogKeys :
          ui' = [Call(ui, "ilv", <<"loop_tail">>) EXCEPT !.mch = ch]
    /\ UNCHANGED <<s, lt, hist, viewVars, blameVars, pureVars>>

\* index of the selected commit, -1 when nothing is selected
SelectedIdx(st) ==
    IF st.selected_entry = NULL \/ st.selected_entry > Len(st.commits)
    THEN -1 ELSE st.commits[st.selected_entry].idx

\* wgetch returns a digit 1-9: get_compound_key leaves the count n in
\* view->count and returns the key typed after the digits, which is kept in
\* view->ch and dispatched (lines 971-977, 1074-1077)
UI_KeyCount ==
    /\ ui.pc = "wgetch" /\ tog_mutex = "none"
    /\ tog_mutex' = "ui"
    /\ \E n \in 1..MaxCount, ch \in {"j", "k"} \cap LogKeys :
          /\ ui' = [Call(ui, "ilv", <<"loop_tail">>)
                      EXCEPT !.mch = ch, !.vch = ch, !.count = n]
          /\ hist' = [hist EXCEPT !.prefix = n, !.ndisp = 1, !.reset = FALSE,
                                  !.start = SelectedIdx(s)]
    /\ UNCHANGED <<s, lt, viewVars, blameVars, pureVars>>

\* view_input with an unfinished count: ch = view->ch is dispatched without
\* a call of wgetch (lines 969-977, 1074-1077)
UI_Repeat ==
    /\ ui.pc = "repeat" /\ tog_mutex = "none"
    /\ tog_mutex' = "ui"
    /\ ui' = [Call(ui, "ilv", <<"loop_tail">>) EXCEPT !.mch = ui.vch]
    /\ hist' = [hist EXCEPT !.ndisp = @ + 1]
    /\ UNCHANGED <<s, lt, viewVars, blameVars, pureVars>>

\* view->count = 0 in a handler
ResetCount(u) == [u EXCEPT !.count = 0]

CountReset(h, u) == IF u.count > 0 THEN [h EXCEPT !.reset = TRUE] ELSE h

\* the end of case KEY_DOWN (lines 2724-2726)
log_down_boundary(st) ==
    st.log_complete /\ SelectedIdx(st) = st.ncommits - 1

\* input_log_view for KEY_DOWN and KEY_UP (lines 2632-2643, 2669-2683,
\* 2708-2727), up to the wait for commits inside log_scroll_down
UI_InputLogView ==
    /\ ui.pc = "ilv"
    /\ LET ret == [Return(ui) EXCEPT !.mch = "none"]
           Down(st) == /\ s' = st
                       /\ ui' = IF log_down_boundary(st)
                                THEN ResetCount(ret) ELSE ret
                       /\ hist' = IF log_down_boundary(st)
                                  THEN CountReset(hist, ui) ELSE hist
       IN
       IF s.load_all
       THEN /\ s' = input_log_view_load_all(s, ui.mch)
            /\ ui' = ret
            /\ hist' = hist
       ELSE IF ui.mch = "k"
       THEN IF s.selected_entry = NULL
            THEN /\ ui' = [ui EXCEPT !.pc = "fault"]
                 /\ s' = s
                 /\ hist' = hist
            ELSE /\ s' = IF s.first_displayed_entry = NULL THEN s
                         ELSE IF s.selected > 0
                         THEN select_commit([s EXCEPT !.selected = @ - 1])
                         ELSE select_commit(log_scroll_up(s, 1))
                 /\ ui' = IF SelectedIdx(s) = 0 THEN ResetCount(ret) ELSE ret
                 /\ hist' = IF SelectedIdx(s) = 0 THEN CountReset(hist, ui)
                            ELSE hist
       ELSE IF s.first_displayed_entry = NULL
            THEN /\ s' = s
                 /\ ui' = ret
                 /\ hist' = hist
            ELSE IF s.selected < Min(ViewLines - 2, s.ncommits - 1)
            THEN Down(select_commit([s EXCEPT !.selected = @ + 1]))
            ELSE IF scroll_needs_commits(s, 1)
            THEN /\ s' = [s EXCEPT !.commits_needed = @ + 1]
                 /\ ui' = Call(ui, "trigger", <<"scroll_j">>)
                 /\ hist' = [hist EXCEPT !.requested = @ + 1]
            ELSE Down(select_commit(log_scroll_down_nowait(s, 1)))
    /\ s'.commits_needed <= MaxNeeded
    /\ UNCHANGED <<lt, tog_mutex, viewVars, blameVars, pureVars>>

\* log_scroll_down after trigger_log_thread returned, then the rest of
\* case KEY_DOWN (lines 2032-2045, 2723-2727)
UI_ScrollDown ==
    /\ ui.pc = "scroll_j"
    /\ LET st == select_commit(log_scroll_down_loop(s, 1))
           ret == [Return(ui) EXCEPT !.mch = "none"]
       IN /\ s' = st
          /\ ui' = IF log_down_boundary(st) THEN ResetCount(ret) ELSE ret
          /\ hist' = IF log_down_boundary(st) THEN CountReset(hist, ui)
                     ELSE hist
    /\ UNCHANGED <<lt, tog_mutex, viewVars, blameVars, pureVars>>

\* case 'G' / KEY_END (lines 2728-2750); ERR and unbound keys take default:
UI_KeyEnd ==
    /\ ui.pc = "wgetch" /\ tog_mutex = "none"
    /\ tog_mutex' = "ui"
    /\ \E ch \in {"G", "ERR"} \cap LogKeys :
          IF s.load_all
          THEN /\ s' = input_log_view_load_all(s, ch)
               /\ lt' = lt
          ELSE IF ch = "ERR"
          THEN UNCHANGED <<s, lt>>
          ELSE IF ~s.log_complete
          THEN /\ s' = [s EXCEPT !.load_all = TRUE]
               /\ lt' = signal_need_commits(lt)
          ELSE /\ s' = input_log_view_end(s)
               /\ lt' = lt
    /\ ui' = loop_tail(ui)
    /\ hist' = [hist EXCEPT !.end_done = s.load_all /\ s.log_complete]
    /\ UNCHANGED <<viewVars, blameVars, pureVars>>

\* if (ch == KEY_BACKSPACE && got_path_is_root_dir(s->in_repo_path)) break;
\* (lines 2847-2849); in_repo_path is the number of its components
backspace_breaks_never(ch, st) == FALSE

backspace_breaks(ch, st) == ch = "KEY_BACKSPACE" /\ st.in_repo_path = 0

\* case KEY_BACKSPACE, CTRL('l'), 'B' up to stop_log_thread (lines 2632-2643,
\* 2843-2850); hist.bs_root: the key was Backspace and the path is the root
KeyReload(ch) ==
    /\ ui.pc = "wgetch" /\ tog_mutex = "none"
    /\ tog_mutex' = "ui"
    /\ IF s.load_all
       THEN /\ s' = input_log_view_load_all(s, ch)
            /\ ui' = loop_tail(ui)
       ELSE IF backspace_breaks(ch, s)
       THEN /\ s' = s
            /\ ui' = loop_tail(ResetCount(ui))
       ELSE /\ s' = s
            /\ ui' = Call([ResetCount(ui) EXCEPT !.ch = ch], "stop",
                          <<"reload_rest", "loop_tail">>)
    /\ hist' = [hist EXCEPT !.bs_root = ch = "KEY_BACKSPACE"
                                          /\ s.in_repo_path = 0]
    /\ UNCHANGED <<lt, viewVars, blameVars, pureVars>>

UI_KeyReload ==
    \E ch \in {"KEY_BACKSPACE", "CTRL_L", "B"} \cap LogKeys : KeyReload(ch)

\* if (s->thread) in stop_log_thread (line 2295): a running loader is
\* told to quit and joined
stop_joins_never(st) == FALSE

stop_joins(st) == st.thread

\* stop_log_thread up to pthread_join (lines 2295-2305)
UI_StopLogThread ==
    /\ ui.pc = "stop"
    /\ IF stop_joins(s)
       THEN /\ s' = [s EXCEPT !.quit = TRUE]
            /\ lt' = signal_need_commits(lt)
            /\ tog_mutex' = "none"
            /\ ui' = [ui EXCEPT !.pc = "join"]
       ELSE /\ ui' = Return(ui)
            /\ UNCHANGED <<s, lt, tog_mutex>>
    /\ UNCHANGED <<hist, viewVars, blameVars, pureVars>>

\* pthread_join returns, the mutex is taken again, the handle is cleared
\* (lines 2305-2312)
UI_Join ==
    /\ ui.pc = "join"
    /\ lt.pc = "exited"
    /\ tog_mutex = "none"
    /\ tog_mutex' = "ui"
    /\ s' = [s EXCEPT !.thread = FALSE]
    /\ lt' = [lt EXCEPT !.pc = "none", !.done = FALSE]
    /\ hist' = [hist EXCEPT !.loaders = @ - 1]
    /\ ui' = Return(ui)
    /\ UNCHANGED <<viewVars, blameVars, pureVars>>

\* the rest of the reload (lines 2853-2906)
UI_ReloadRest ==
    /\ ui.pc = "reload_rest"
    /\ \E len \in 0..MaxCommits :
          s' = [free_commits(s) EXCEPT
                   !.in_repo_path = IF ui.ch = "KEY_BACKSPACE"
                                    THEN @ - 1 ELSE @,
                   !.graph_len = len,
                   !.graph_pos = 0,
                   !.first_displayed_entry = NULL,
                   !.last_displayed_entry = NULL,
                   !.selected_entry = NULL,
                   !.selected = 0,
                   !.log_complete = FALSE,
                   !.quit = FALSE,
                   !.commits_needed = ViewLines,
                   !.matched_entry = NULL,
                   !.search_entry = NULL]
    /\ hist' = IF s.commits # <<>> THEN Mutated("remove", "ui") ELSE hist
    /\ ui' = Return(ui)
    /\ UNCHANGED <<lt, tog_mutex, viewVars, blameVars, pureVars>>

\* case '/' of view_input: view_search_start (lines 856-889) up to
\* view->search_next; without a pattern a search in progress is dropped
UI_KeySearch ==
    /\ ui.pc = "wgetch" /\ tog_mutex = "none" /\ "/" \in LogKeys
    /\ tog_mutex' = "ui"
    /\ \/ /\ s' = [s EXCEPT !.searching = IF s.search_started THEN 0 ELSE @,
                            !.regex = {},
                            !.search_started = FALSE]
          /\ ui' = loop_tail(ui)
          /\ hist' = hist
       \/ \E re \in Patterns :
             /\ s' = [s EXCEPT !.regex = re,
                               !.matched_entry = NULL,
                               !.search_entry = NULL,
                               !.search_started = TRUE,
                               !.searching = TOG_SEARCH_FORWARD,
                               !.search_next_done = 0]
             /\ ui' = Call(ui, "search_next", <<"loop_tail">>)
             /\ hist' = [hist EXCEPT !.fresh = TRUE]
    /\ UNCHANGED <<lt, viewVars, blameVars, pureVars>>

\* case 'N', 'n' of view_input (lines 1064-1073)
UI_KeySearchNext ==
    /\ ui.pc = "wgetch" /\ tog_mutex = "none"
    /\ tog_mutex' = "ui"
    /\ \E ch \in {"n", "N"} \cap LogKeys :
          IF s.search_started
          THEN /\ s' = [s EXCEPT !.searching = IF ch = "n"
                                               THEN TOG_SEARCH_FORWARD
                                               ELSE TOG_SEARCH_BACKWARD,
                                 !.search_next_done = 0]
               /\ ui' = Call(ui, "search_next", <<"loop_tail">>)
               /\ hist' = [hist EXCEPT !.fresh = TRUE]
          ELSE /\ s' = IF s.load_all THEN input_log_view_load_all(s, ch)
                       ELSE s
               /\ ui' = loop_tail(ui)
               /\ hist' = hist
    /\ UNCHANGED <<lt, viewVars, blameVars, pureVars>>

\* search_next_log_view: the progress update (lines 2380-2383)
UI_SearchNext ==
    /\ ui.pc = "search_next"
    /\ ui' = Call(ui, "show", <<"sn_body">>)
    /\ UNCHANGED <<s, lt, tog_mutex, hist, viewVars, blameVars, pureVars>>

\* the while (1) loop of search_next_log_view (lines 2431-2467)
search_scan(st, first) ==
    LET RECURSIVE scan(_, _)
        scan(x, entry) ==
            IF entry = NULL
            THEN IF x.log_complete \/ x.searching = TOG_SEARCH_BACKWARD
                 THEN [st |-> [x EXCEPT
                                 !.search_next_done =
                                     IF x.matched_entry = NULL
                                     THEN TOG_SEARCH_HAVE_NONE
                                     ELSE TOG_SEARCH_NO_MORE,
                                 !.search_entry = NULL],
                       out |-> "ret"]
                 ELSE [st |-> [x EXCEPT !.commits_needed = @ + 1],
                       out |-> "poke"]
            ELSE IF x.commits[entry].id \in x.regex
            THEN [st |-> [x EXCEPT
                            !.search_next_done = TOG_SEARCH_HAVE_MORE,
                            !.matched_entry = entry],
                  out |-> "move"]
            ELSE scan([x EXCEPT !.search_entry = entry],
                      IF x.searching = TOG_SEARCH_FORWARD
                      THEN TAILQ_NEXT(x.commits, entry)
                      ELSE TAILQ_PREV(x.commits, entry))
    IN scan(st, first)

\* where the search starts when search_entry is NULL (lines 2405-2429)
search_first_entry(st) ==
    IF st.matched_entry # NULL
    THEN LET matched_idx == st.commits[st.matched_entry].idx
             selected_idx == st.commits[st.selected_entry].idx
         IN IF st.searching = TOG_SEARCH_FORWARD
            THEN (IF matched_idx > selected_idx
                  THEN TAILQ_NEXT(st.commits, st.selected_entry)
                  ELSE TAILQ_NEXT(st.commits, st.matched_entry))
            ELSE (IF matched_idx < selected_idx
                  THEN TAILQ_PREV(st.commits, st.selected_entry)
                  ELSE TAILQ_PREV(st.commits, st.matched_entry))
    ELSE st.selected_entry

\* the scan and what follows it, from an entry on
SearchFrom(entry) ==
    LET r == search_scan(s, entry) IN
    /\ s' = r.st
    /\ hist' = [hist EXCEPT !.scan = [first |-> entry,
                                      selected |-> s.selected_entry,
                                      matched |-> s.matched_entry,
                                      searching |-> s.searching,
                                      ncommits |-> Len(s.commits)],
                         !.found = IF r.out = "move"
                                   THEN r.st.matched_entry ELSE @]
    /\ r.out = "poke" => r.st.commits_needed <= MaxNeeded
    /\ lt' = IF r.out = "poke" THEN signal_need_commits(lt) ELSE lt
    /\ ui' = IF r.out = "move"
             THEN IF r.st.selected_entry = NULL
                  THEN [ui EXCEPT !.pc = "fault"]
                  ELSE [ui EXCEPT !.pc = "sm_loop",
                           !.cur = r.st.commits[r.st.selected_entry].idx]
             ELSE Return(ui)

\* search_next_log_view after the progress update
UI_SearchBody ==
    /\ ui.pc = "sn_body"
    /\ IF s.search_entry # NULL
       THEN /\ tog_mutex' = "none"
            /\ ui' = [ui EXCEPT !.pc = "sn_wgetch"]
            /\ UNCHANGED <<s, lt, hist>>
       ELSE IF s.matched_entry # NULL /\ s.selected_entry = NULL
       THEN /\ ui' = [ui EXCEPT !.pc = "fault"]
            /\ UNCHANGED <<s, lt, tog_mutex, hist>>
       ELSE /\ SearchFrom(search_first_entry(s))
            /\ UNCHANGED tog_mutex
    /\ UNCHANGED <<viewVars, blameVars, pureVars>>

\* the key read of a resumed search (lines 2391-2404)
UI_SearchResume ==
    /\ ui.pc = "sn_wgetch"
    /\ tog_mutex = "none"
    /\ tog_mutex' = "ui"
    /\ \/ /\ s' = [s EXCEPT !.search_next_done = TOG_SEARCH_HAVE_MORE]
          /\ ui' = Return(ui)
          /\ UNCHANGED <<lt, hist>>
       \/ SearchFrom(IF s.searching = TOG_SEARCH_FORWARD
                     THEN TAILQ_NEXT(s.commits, s.search_entry)
                     ELSE TAILQ_PREV(s.commits, s.search_entry))
    /\ UNCHANGED <<viewVars, blameVars, pureVars>>

\* moving the cursor to the match (lines 2469-2487)
UI_SearchMove ==
    /\ ui.pc = "sm_loop"
    /\ LET m == s.commits[s.matched_entry].idx IN
       IF ui.cur < m
       THEN /\ ui' = [Call(ui, "ilv", <<"sm_loop">>) EXCEPT
                         !.mch = "j", !.cur = @ + 1]
            /\ s' = s
       ELSE IF ui.cur > m
       THEN /\ ui' = [Call(ui, "ilv", <<"sm_loop">>) EXCEPT
                         !.mch = "k", !.cur = @ - 1]
            /\ s' = s
       ELSE /\ s' = [s EXCEPT !.search_entry = NULL]
            /\ ui' = [Return(ui) EXCEPT !.cur = 0]
    /\ UNCHANGED <<lt, tog_mutex, hist, viewVars, blameVars, pureVars>>

\* close_log_view after stop_log_thread (lines 2345-2360)
UI_CloseRest ==
    /\ ui.pc = "close_rest"
    /\ s' = free_commits(s)
    /\ hist' = IF s.commits # <<>> THEN Mutated("remove", "ui") ELSE hist
    /\ ui' = Return(ui)
    /\ UNCHANGED <<lt, tog_mutex, viewVars, blameVars, pureVars>>

\* the result of view->show and the loop condition (lines 1220-1222, 1136);
\* on an error or after 'Q' the done: label closes the view
UI_LoopCond ==
    /\ ui.pc = "loop_cond"
    /\ \E err \in BOOLEAN :
          ui' = IF err \/ ui.done \/ tog_fatal_signal_received(s)
                THEN [ui EXCEPT !.pc = "stop", !.k = <<"close_rest", "exit">>]
                ELSE [ui EXCEPT !.pc = "input"]
    /\ UNCHANGED <<s, lt, tog_mutex, hist, viewVars, blameVars, pureVars>>

\* pthread_mutex_unlock and return (lines 1239-1243)
UI_Exit ==
    /\ ui.pc = "exit"
    /\ tog_mutex' = "none"
    /\ ui' = [ui EXCEPT !.pc = "returned"]
    /\ UNCHANGED <<s, lt, hist, viewVars, blameVars, pureVars>>

UINext ==
    \/ UI_LoopEnter
    \/ UI_Show
    \/ UI_Trigger
    \/ UI_CondWake
    \/ UI_Draw
    \/ UI_InitShown
    \/ UI_Input
    \/ UI_Yield
    \/ UI_KeyQ
    \/ UI_KeyQuitAll
    \/ UI_KeyMotion
    \/ UI_InputLogView
    \/ UI_ScrollDown
    \/ UI_KeyEnd
    \/ UI_KeyReload
    \/ UI_StopLogThread
    \/ UI_Join
    \/ UI_ReloadRest
    \/ UI_KeySearch
    \/ UI_KeySearchNext
    \/ UI_SearchNext
    \/ UI_SearchBody
    \/ UI_SearchResume
    \/ UI_SearchMove
    \/ UI_CloseRest
    \/ UI_LoopCond
    \/ UI_Exit

\* State when cmd_log calls view_loop: open_log_view has filled in the log
\* view state (lines 2508-2594), no loader thread exists yet.
LogInitFor(lens) ==
    /\ \E len \in lens :
          s = [commits |-> <<>>, ncommits |-> 0,
               first_displayed_entry |-> NULL, last_displayed_entry |-> NULL,
               selected_entry |-> NULL, selected |-> 0,
               in_repo_path |-> MaxPathDepth,
               quit |-> FALSE, thread |-> FALSE,
               commits_needed |-> ViewLines, load_all |-> FALSE,
               log_complete |-> FALSE,
               graph_len |-> len, graph_pos |-> 0,
               matched_entry |-> NULL, search_entry |-> NULL,
               searching |-> 0, search_next_done |-> 0,
               search_started |-> FALSE, regex |-> {},
               tog_sigpipe_received |-> FALSE, tog_sigint_received |-> FALSE,
               tog_sigterm_received |-> FALSE]
    /\ lt = [pc |-> "none", done |-> FALSE, id |-> 0, tmp |-> 0]
    /\ ui = [pc |-> "vl_start", k |-> <<>>, ch |-> "none", mch |-> "none",
             cur |-> 0, dying |-> FALSE, done |-> FALSE,
             count |-> 0, vch |-> "none", first |-> NULL]
    /\ tog_mutex = "none"
    /\ hist = [unguarded |-> {}, loaders |-> 0,
               last_mut |-> [op |-> "none", by |-> "none", held |-> FALSE,
                             joined |-> FALSE],
               prefix |-> 0, ndisp |-> 0, reset |-> FALSE, start |-> 0,
               bs_root |-> FALSE, requested |-> 0,
               fresh |-> FALSE, scan |-> <<>>, found |-> NULL,
               end_done |-> FALSE]

LogInit == LogInitFor(0..MaxCommits)

\* The view manager's variables while the log view model runs
ViewIdle ==
    /\ views = [w \in ViewIds |-> NoView]
    /\ vlist = <<>>
    /\ cur = NULL
    /\ done = FALSE
    /\ loop_exited = FALSE
    /\ COLS = 80
    /\ term_cols = 80
    /\ tog_sigwinch_received = FALSE
    /\ fault = FALSE
    /\ picked = NULL

\* The loader's variables while no log view is open
LoaderIdle ==
    /\ s = [commits |-> <<>>]
    /\ lt = [pc |-> "none"]
    /\ hist = [unguarded |-> {}, annotators |-> 0]

\* The log view's variables while the view manager model runs
LogIdle ==
    /\ LoaderIdle
    /\ ui = [pc |-> "none"]
    /\ tog_mutex = "none"

\* The blame view's variables while no blame view is open
BlameIdle ==
    /\ blame = [lines |-> <<>>]
    /\ bt = [pc |-> "none"]

\* No numeric prefix is being read
KeyIdle == key = [pc |-> "none"]

\* No pack file is being read
PackIdle == pack = [pc |-> "none"]

\* No diff view is open
DiffIdle == dv = [pc |-> "none"]

vars == <<viewVars, logVars, blameVars, pureVars>>

InitView == ViewInit /\ LogIdle /\ BlameIdle /\ KeyIdle /\ PackIdle /\ DiffIdle

SpecView == InitView /\ [][ViewNext]_vars

Init == LogInit /\ ViewIdle /\ BlameIdle /\ KeyIdle /\ PackIdle /\ DiffIdle

Next == LoaderNext \/ UINext

Spec == Init /\ [][Next]_vars

\* int nscroll = view->nlines - 1 (line 2630)
nscroll == ViewLines - 1

\* case 'g' / KEY_HOME (lines 2685-2690)
input_log_view_home(st) ==
    select_commit([st EXCEPT !.selected = 0,
                             !.first_displayed_entry =
                                 TAILQ_FIRST(st.commits)])

\* case KEY_PPAGE (lines 2695-2706)
input_log_view_ppage(st) ==
    IF st.first_displayed_entry = NULL THEN st
    ELSE IF TAILQ_FIRST(st.commits) = st.first_displayed_entry
    THEN select_commit([st EXCEPT !.selected = Max(0, @ - nscroll - 1)])
    ELSE select_commit(log_scroll_up(st, nscroll))

\* case KEY_NPAGE after log_scroll_down returned (lines 2761-2768); first
\* is the first displayed entry at the start of the case
input_log_view_npage(st, first) ==
    select_commit(
        IF first = st.first_displayed_entry
           /\ st.selected < Min(ViewLines - 2, st.ncommits - 1)
        THEN [st EXCEPT !.selected =
                 @ + Min(st.commits[st.last_displayed_entry].idx
                             - st.commits[st.selected_entry].idx,
                         nscroll + 1)]
        ELSE st)

\* g, KEY_PPAGE and KEY_NPAGE typed in the log view (lines 2632-2643,
\* 2685-2706, 2751-2773), up to the wait for commits inside log_scroll_down
UI_KeyPage ==
    /\ ui.pc = "wgetch" /\ tog_mutex = "none"
    /\ tog_mutex' = "ui"
    /\ \E ch \in {"g", "KEY_PPAGE", "KEY_NPAGE"} :
          IF s.load_all
          THEN /\ s' = input_log_view_load_all(s, ch)
               /\ ui' = loop_tail(ui)
          ELSE IF ch = "g"
          THEN /\ s' = input_log_view_home(s)
               /\ ui' = loop_tail(ResetCount(ui))
          ELSE IF ch = "KEY_PPAGE"
          THEN /\ s' = input_log_view_ppage(s)
               /\ ui' = loop_tail(ui)
          ELSE IF s.first_displayed_entry = NULL
          THEN /\ s' = s
               /\ ui' = loop_tail(ResetCount(ui))
          ELSE IF scroll_needs_commits(s, nscroll)
          THEN /\ s' = [s EXCEPT !.commits_needed = @ + nscroll]
               /\ ui' = Call([ui EXCEPT !.first = s.first_displayed_entry],
                             "trigger", <<"scroll_f", "loop_tail">>)
          ELSE /\ s' = input_log_view_npage(
                           log_scroll_down_nowait(s, nscroll),
                           s.first_displayed_entry)
               /\ ui' = loop_tail(ui)
    /\ s'.commits_needed <= MaxNeeded
    /\ UNCHANGED <<lt, hist, viewVars, blameVars, pureVars>>

\* log_scroll_down after trigger_log_thread returned, then the rest of
\* case KEY_NPAGE (lines 2032-2045, 2761-2773)
UI_PageDown ==
    /\ ui.pc = "scroll_f"
    /\ s' = input_log_view_npage(log_scroll_down_loop(s, nscroll), ui.first)
    /\ ui' = [Return(ui) EXCEPT !.first = NULL]
    /\ UNCHANGED <<lt, tog_mutex, hist, viewVars, blameVars, pureVars>>

SelectNext == Next \/ UI_KeyPage \/ UI_PageDown

SpecSelect == Init /\ [][SelectNext]_vars

\* The user types motion keys, numeric prefixes and 'q' only.
CountNext ==
    \/ LoaderNext
    \/ UI_LoopEnter
    \/ UI_Show
    \/ UI_Trigger
    \/ UI_CondWake
    \/ UI_Draw
    \/ UI_InitShown
    \/ UI_Input
    \/ UI_KeyQ
    \/ UI_KeyMotion
    \/ UI_KeyCount
    \/ UI_Repeat
    \/ UI_InputLogView
    \/ UI_ScrollDown
    \/ UI_StopLogThread
    \/ UI_Join
    \/ UI_CloseRest
    \/ UI_LoopCond
    \/ UI_Exit

SpecCount == Init /\ [][CountNext]_vars

\* tog_sigpipe, tog_sigint, tog_sigterm (lines 612-634): the handler of a
\* signal delivered while view_loop runs
Sig_Fatal ==
    /\ ui.pc \notin {"none", "vl_start", "returned"}
    /\ \/ s' = [s EXCEPT !.tog_sigpipe_received = TRUE]
       \/ s' = [s EXCEPT !.tog_sigint_received = TRUE]
       \/ s' = [s EXCEPT !.tog_sigterm_received = TRUE]
    /\ UNCHANGED <<lt, ui, tog_mutex, hist, viewVars, blameVars, pureVars>>

\* The history has one commit more than fits the bound, so that the loader
\* can be asked for more than the view and the scrolling need.
InitNeed ==
    /\ LogInitFor({MaxCommits + 1})
    /\ ViewIdle /\ BlameIdle /\ KeyIdle /\ PackIdle /\ DiffIdle

SpecNeed == InitNeed /\ [][CountNext]_vars

\* The user types motion keys and 'q', and signals arrive.
SignalNext == CountNext \/ Sig_Fatal

SpecSignal == Init /\ [][SignalNext]_vars

\* The loader is a thread of its own and pthread_join returns once it has
\* exited: both are scheduled whenever they can run.
FairSpec == Spec /\ WF_vars(LoaderNext) /\ WF_vars(UI_Join)

\* Both threads are scheduled whenever they can run; only the user's keys at
\* the wgetch of view_input may never come.  The wgetch of a resumed search
\* returns after the delay set by halfdelay (line 1970).
FairSearch ==
    /\ Spec
    /\ WF_vars(LoaderNext)
    /\ WF_vars(UINext /\ ui.pc # "wgetch")

\* ------------------------------------------------------------------------
\* Blame view and annotator thread
\* ------------------------------------------------------------------------
MaxLines == 2           \* lines of the blamed file
MaxCallbacks == 3       \* callbacks got_blame makes in one run
MaxBlamed == 2          \* entries on the stack of blamed commits

BlameKeys == {"q", "Q", "c", "p", "C", "ERR"}

BlameErrors ==
    {"NULL", "GOT_ERR_RANGE", "GOT_ERR_ITER_COMPLETED", "GOT_ERR_CANCELLED"}

\* calloc(blame->nlines, sizeof(*blame->lines)) in run_blame
alloc_lines(n) == [i \in 1..n |-> [annotated |-> FALSE, id |-> NULL]]

\* the range check of blame_cb, made before the mutex is taken
blame_cb_range(b, nlines, lineno) ==
    nlines # b.nlines \/ (lineno # -1 /\ lineno < 1) \/ lineno > b.nlines

\* blame_cb between pthread_mutex_lock and pthread_mutex_unlock
blame_cb_overwrite(b, lineno, id) ==
    IF b.done THEN [b |-> b, err |-> "GOT_ERR_ITER_COMPLETED"]
    ELSE IF lineno = -1 THEN [b |-> b, err |-> "NULL"]
    ELSE [b |-> [b EXCEPT !.lines[lineno] = [annotated |-> TRUE, id |-> id]],
          err |-> "NULL"]

blame_cb(b, lineno, id) ==
    IF b.done THEN [b |-> b, err |-> "GOT_ERR_ITER_COMPLETED"]
    ELSE IF lineno = -1 THEN [b |-> b, err |-> "NULL"]
    ELSE IF b.lines[lineno].annotated THEN [b |-> b, err |-> "NULL"]
    ELSE [b |-> [b EXCEPT !.lines[lineno] = [annotated |-> TRUE, id |-> id]],
          err |-> "NULL"]

\* cancel_blame_view
cancel_blame_view(b) == IF b.done THEN "GOT_ERR_CANCELLED" ELSE "NULL"

\* blame_thread: the result of got_blame as the thread returns it
blame_thread_err(err) == IF err = "GOT_ERR_CANCELLED" THEN "NULL" ELSE err

\* stop_blame: the joined thread's result as stop_blame returns it
stop_blame_err_raw(err) == err

stop_blame_err(err) == IF err = "GOT_ERR_ITER_COMPLETED" THEN "NULL" ELSE err

\* stop_blame after the join: the handle is cleared, lines[] is freed
stop_blame_free(b) == [b EXCEPT !.thread = FALSE, !.lines = <<>>]

\* run_blame for a file of n lines
run_blame(b, n) ==
    [b EXCEPT !.lines = alloc_lines(n), !.nlines = n,
              !.blame_complete = FALSE]

\* get_selected_commit_id for the selected line
get_selected_commit_id(b, sel) ==
    IF b.nlines <= 0 THEN NULL
    ELSE IF ~b.lines[sel].annotated THEN NULL
    ELSE b.lines[sel].id

\* show_blame_view creates the annotator when there is none and the blame
\* is not complete
show_blame_creates_always(b) == ~b.blame_complete

show_blame_creates(b) == ~b.thread /\ ~b.blame_complete

\* show_blame_view: pthread_create starts blame_thread
ShowBlame(b) ==
    IF show_blame_creates(b)
    THEN /\ blame' = [b EXCEPT !.thread = TRUE]
         /\ bt' = [pc |-> "blame", n |-> 0, lineno |-> 0, id |-> 0,
                   ret |-> "NULL", err |-> "NULL"]
         /\ hist' = [hist EXCEPT !.annotators = @ + 1]
    ELSE /\ blame' = b
         /\ bt' = bt
         /\ hist' = hist

\* ---- annotator thread: blame_thread, got_blame, blame_cb ----

\* got_blame reports a commit: blame_cb is called for a line of the file, or
\* with lineno -1 when the commit changed nothing
B_CallBlameCb ==
    /\ bt.pc = "blame"
    /\ bt.n < MaxCallbacks
    /\ \E lineno \in {-1} \cup 0..MaxLines, id \in CommitIds :
          bt' = IF blame_cb_range(blame, blame.nlines, lineno)
                THEN [bt EXCEPT !.pc = "fin", !.n = @ + 1,
                                !.lineno = lineno, !.id = id,
                                !.ret = "GOT_ERR_RANGE"]
                ELSE [bt EXCEPT !.pc = "cb_lock", !.n = @ + 1,
                                !.lineno = lineno, !.id = id]
    /\ UNCHANGED <<blame, ui, tog_mutex, s, lt, hist, viewVars, pureVars>>

\* got_blame polls the cancel callback
B_CallCancelCb ==
    /\ bt.pc = "blame"
    /\ bt.n < MaxCallbacks
    /\ bt' = [bt EXCEPT !.pc = "cancel_lock", !.n = @ + 1]
    /\ UNCHANGED <<blame, ui, tog_mutex, s, lt, hist, viewVars, pureVars>>

\* got_blame has walked the whole history of the file
B_BlameDone ==
    /\ bt.pc = "blame"
    /\ bt' = [bt EXCEPT !.pc = "fin", !.ret = "NULL"]
    /\ UNCHANGED <<blame, ui, tog_mutex, s, lt, hist, viewVars, pureVars>>

\* blame_cb from pthread_mutex_lock to pthread_mutex_unlock; an error ends
\* got_blame
B_BlameCb ==
    /\ bt.pc = "cb_lock"
    /\ tog_mutex = "none"
    /\ LET r == blame_cb(blame, bt.lineno, bt.id) IN
          /\ blame' = r.b
          /\ bt' = IF r.err = "NULL" THEN [bt EXCEPT !.pc = "blame"]
                   ELSE [bt EXCEPT !.pc = "fin", !.ret = r.err]
    /\ UNCHANGED <<ui, tog_mutex, s, lt, hist, viewVars, pureVars>>

\* cancel_blame_view from pthread_mutex_lock to pthread_mutex_unlock
B_CancelCb ==
    /\ bt.pc = "cancel_lock"
    /\ tog_mutex = "none"
    /\ bt' = IF cancel_blame_view(blame) = "NULL"
             THEN [bt EXCEPT !.pc = "blame"]
             ELSE [bt EXCEPT !.pc = "fin", !.ret = cancel_blame_view(blame)]
    /\ UNCHANGED <<blame, ui, tog_mutex, s, lt, hist, viewVars, pureVars>>

\* blame_thread after got_blame returned (lines 4696-4717)
B_Finish ==
    /\ bt.pc = "fin"
    /\ tog_mutex = "none"
    /\ blame' = [blame EXCEPT !.blame_complete = TRUE]
    /\ bt' = [bt EXCEPT !.pc = "exited", !.err = blame_thread_err(bt.ret)]
    /\ UNCHANGED <<ui, tog_mutex, s, lt, hist, viewVars, pureVars>>

AnnotatorNext ==
    \/ B_CallBlameCb
    \/ B_CallCancelCb
    \/ B_BlameDone
    \/ B_BlameCb
    \/ B_CancelCb
    \/ B_Finish

\* ---- UI thread: view_loop, view_input and the blame view's handlers ----

\* view_loop up to the loop (lines 1123-1135): the first view->show
BV_LoopEnter ==
    /\ ui.pc = "vl_start"
    /\ tog_mutex = "none"
    /\ tog_mutex' = "ui"
    /\ ShowBlame(blame)
    /\ \E err \in BOOLEAN :
          ui' = IF err THEN [ui EXCEPT !.pc = "returned", !.err = "error"]
                ELSE [ui EXCEPT !.pc = "input"]
    /\ UNCHANGED <<s, lt, viewVars, pureVars>>

\* view_input up to the release of the mutex (lines 943-967)
BV_Input ==
    /\ ui.pc = "input"
    /\ tog_mutex' = "none"
    /\ ui' = [ui EXCEPT !.pc = "wgetch"]
    /\ UNCHANGED <<blame, bt, s, lt, hist, viewVars, pureVars>>

\* wgetch times out or returns an unbound key: default: of input_blame_view,
\* then view_loop shows the view again
BV_KeyIdle ==
    /\ ui.pc = "wgetch" /\ tog_mutex = "none" /\ "ERR" \in BlameKeys
    /\ tog_mutex' = "ui"
    /\ ShowBlame(blame)
    /\ ui' = [ui EXCEPT !.pc = "input"]
    /\ UNCHANGED <<s, lt, viewVars, pureVars>>

\* close_blame_view up to pthread_join in stop_blame (lines 4974-4975,
\* 4743-4748); without a thread nothing is stopped
CloseBlame(b, u, how) ==
    IF b.thread
    THEN /\ tog_mutex' = "none"
         /\ ui' = [u EXCEPT !.pc = "join", !.k = <<how>>]
    ELSE /\ tog_mutex' = "ui"
         /\ ui' = [u EXCEPT !.pc = "exit"]

\* case 'q': input_blame_view sets done, view_input marks the view dying,
\* view_loop closes it
BV_KeyQ ==
    /\ ui.pc = "wgetch" /\ tog_mutex = "none" /\ "q" \in BlameKeys
    /\ blame' = [blame EXCEPT !.done = TRUE]
    /\ CloseBlame(blame, [ui EXCEPT !.dying = TRUE], "close_dying")
    /\ UNCHANGED <<bt, s, lt, hist, viewVars, pureVars>>

\* case 'Q' of view_input: the loop ends, the done: label closes the view
BV_KeyQuitAll ==
    /\ ui.pc = "wgetch" /\ tog_mutex = "none" /\ "Q" \in BlameKeys
    /\ CloseBlame(blame, [ui EXCEPT !.done = TRUE], "close_done")
    /\ UNCHANGED <<blame, bt, s, lt, hist, viewVars, pureVars>>

\* stop_blame is entered by case 'c' and case 'C' with done set
StopBlame(b, u, how, id) ==
    /\ blame' = [b EXCEPT !.done = TRUE]
    /\ hist' = hist
    /\ IF b.thread
       THEN /\ tog_mutex' = "none"
            /\ ui' = [u EXCEPT !.pc = "join", !.k = <<how>>, !.pid = id]
       ELSE /\ tog_mutex' = "ui"
            /\ ui' = [u EXCEPT !.pc = "stopped", !.k = <<how>>, !.pid = id]

\* case 'c' and case 'p' (lines 5189-5258): blame the commit of the selected
\* line, or its first parent pid as the repository reports it
BV_KeyBlameCommit ==
    /\ ui.pc = "wgetch" /\ tog_mutex = "none"
    /\ \E ch \in {"c", "p"} \cap BlameKeys, sel \in 1..blame.nlines,
          pid \in {NULL} \cup CommitIds :
          LET id == get_selected_commit_id(blame, sel)
              new == IF ch = "p" THEN pid ELSE id
          IN
          IF id = NULL \/ new = NULL
             \/ (ch = "c" /\ id = Head(blame.blamed_commits))
             \/ Len(blame.blamed_commits) >= MaxBlamed
          THEN /\ tog_mutex' = "ui"
               /\ ShowBlame(blame)
               /\ ui' = [ui EXCEPT !.pc = "input"]
          ELSE /\ StopBlame(blame, ui, "push", new)
               /\ bt' = bt
    /\ UNCHANGED <<s, lt, viewVars, pureVars>>

blame_back_at_initial_never(b) == FALSE

\* !got_object_id_cmp(&first->id, s->commit_id) of case 'C'
blame_back_at_initial(b) == Head(b.blamed_commits) = b.commit_id

\* case 'C' (lines 5259-5279): back to the previously blamed commit
BV_KeyBlameBack ==
    /\ ui.pc = "wgetch" /\ tog_mutex = "none" /\ "C" \in BlameKeys
    /\ IF blame_back_at_initial(blame)
       THEN /\ tog_mutex' = "ui"
            /\ ShowBlame(blame)
            /\ ui' = [ui EXCEPT !.pc = "input"]
       ELSE /\ StopBlame(blame, ui, "pop", NULL)
            /\ bt' = bt
    /\ UNCHANGED <<s, lt, viewVars, pureVars>>

\* pthread_join returns, the mutex is taken again, the thread's result is
\* taken over, the handle cleared and lines[] freed (lines 4746-4772)
BV_Join ==
    /\ ui.pc = "join"
    /\ bt.pc = "exited"
    /\ tog_mutex = "none"
    /\ tog_mutex' = "ui"
    /\ blame' = stop_blame_free(blame)
    /\ bt' = [bt EXCEPT !.pc = "none"]
    /\ ui' = [ui EXCEPT !.pc = IF Head(ui.k) \in {"push", "pop"}
                               THEN "stopped" ELSE "exit",
                        !.err = IF Head(ui.k) = "close_done" THEN @
                                ELSE stop_blame_err(bt.err)]
    /\ hist' = [hist EXCEPT !.annotators = @ - 1]
    /\ UNCHANGED <<s, lt, viewVars, pureVars>>

\* case 'c' and 'C' after stop_blame: done is cleared, the stack of blamed
\* commits changed and run_blame called; a thread error ends view_loop
BV_Restart ==
    /\ ui.pc = "stopped"
    /\ IF ui.err # "NULL"
       THEN /\ blame' = [blame EXCEPT !.done = FALSE]
            /\ bt' = bt
            /\ hist' = hist
            /\ ui' = [ui EXCEPT !.pc = "exit", !.k = <<>>]
       ELSE /\ \E n \in 1..MaxLines :
                  ShowBlame(run_blame(
                      [blame EXCEPT
                          !.done = FALSE,
                          !.blamed_commits =
                              IF Head(ui.k) = "push" THEN <<ui.pid>> \o @
                              ELSE Tail(@)],
                      n))
            /\ ui' = [ui EXCEPT !.pc = "input", !.k = <<>>, !.pid = NULL,
                                !.last = Head(ui.k)]
    /\ UNCHANGED <<tog_mutex, s, lt, viewVars, pureVars>>

\* pthread_mutex_unlock and return (lines 1239-1243)
BV_Exit ==
    /\ ui.pc = "exit"
    /\ tog_mutex' = "none"
    /\ ui' = [ui EXCEPT !.pc = "returned"]
    /\ UNCHANGED <<blame, bt, s, lt, hist, viewVars, pureVars>>

BlameUINext ==
    \/ BV_LoopEnter
    \/ BV_Input
    \/ BV_KeyIdle
    \/ BV_KeyQ
    \/ BV_KeyQuitAll
    \/ BV_KeyBlameCommit
    \/ BV_KeyBlameBack
    \/ BV_Join
    \/ BV_Restart
    \/ BV_Exit

\* State when cmd_blame calls view_loop: open_blame_view has run run_blame
\* (lines 4931-4965), no annotator thread exists yet.
BlameInit ==
    /\ \E n \in 1..MaxLines :
          blame = [lines |-> alloc_lines(n), nlines |-> n,
                   done |-> FALSE, blame_complete |-> FALSE,
                   thread |-> FALSE,
                   blamed_commits |-> <<1>>, commit_id |-> 1]
    /\ bt = [pc |-> "none", n |-> 0, lineno |-> 0, id |-> 0,
             ret |-> "NULL", err |-> "NULL"]
    /\ ui = [pc |-> "vl_start", k |-> <<>>, err |-> "NULL", pid |-> NULL,
             dying |-> FALSE, done |-> FALSE, last |-> "none"]
    /\ tog_mutex = "none"

BlameNext == AnnotatorNext \/ BlameUINext

InitBlame == BlameInit /\ LoaderIdle /\ ViewIdle /\ KeyIdle /\ PackIdle
    /\ DiffIdle

SpecBlame == InitBlame /\ [][BlameNext]_vars

\* ------------------------------------------------------------------------
\* Numeric prefix: get_compound_key
\* ------------------------------------------------------------------------
MaxDigits == 8          \* digits typed before the motion key

CountCap == 9999999

\* the digits wgetch returns
Digits == {0, 1, 9}

\* the body of the do-while loop (lines 918-921)
get_compound_key_step(n, c) ==
    IF n >= CountCap THEN CountCap ELSE n * 10 + c

\* the loop body for the digit c, then wgetch returns another digit
CK_Digit ==
    /\ key.pc = "loop"
    /\ Len(key.typed) + 1 < MaxDigits
    /\ \E d \in Digits :
          key' = [key EXCEPT !.n = get_compound_key_step(key.n, key.c),
                             !.typed = Append(@, key.c),
                             !.c = d]
    /\ UNCHANGED <<pack, dv, viewVars, logVars, blameVars>>

\* the loop body for the digit c, then wgetch returns a key that is not a
\* digit, or ERR: view->count = n (lines 922-925)
CK_Return ==
    /\ key.pc = "loop"
    /\ LET n == get_compound_key_step(key.n, key.c) IN
          key' = [key EXCEPT !.n = n, !.typed = Append(@, key.c),
                             !.c = -1, !.count = n, !.pc = "done"]
    /\ UNCHANGED <<pack, dv, viewVars, logVars, blameVars>>

\* get_compound_key is entered with the first digit, which is 1-9 (lines
\* 972-973, 901-903)
KeyInit ==
    /\ \E c \in Digits \ {0} :
          key = [pc |-> "loop", c |-> c, n |-> 0, typed |-> <<>>,
                 count |-> 0]

KeyNext == CK_Digit \/ CK_Return

InitKey == KeyInit /\ PackIdle /\ LogIdle /\ ViewIdle /\ BlameIdle /\ DiffIdle

SpecKey == InitKey /\ [][KeyNext]_vars

\* ------------------------------------------------------------------------
\* lib/pack.c: pack index lookup (get_object_idx)
\* ------------------------------------------------------------------------
MaxObjs == 3            \* objects in a pack index
MaxRest == 1            \* values of the id bytes after the first

FanoutLast == 255        \* 0xff, the last entry of the fan-out table

\* first bytes of the object ids in use
IdBytes == {0, 66, 255}

\* an object id: its first byte and the value of the 19 bytes after it
ObjectIds == IdBytes \X (0..MaxRest)

\* got_object_id_cmp: the sign of memcmp over the id bytes
got_object_id_cmp(id1, id2) ==
    IF id1 = id2 THEN 0
    ELSE IF id1[1] < id2[1] \/ (id1[1] = id2[1] /\ id1[2] < id2[2]) THEN -1
    ELSE 1

\* The ids of a set in ascending order, as sorted_ids holds them
SortedIds(S) ==
    CHOOSE q \in [1..Cardinality(S) -> S] :
        \A i \in 1..(Cardinality(S) - 1) :
            got_object_id_cmp(q[i], q[i + 1]) < 0

\* The fan-out table of an index: entry b counts the ids whose first byte
\* is at most b
FanoutOf(ids) ==
    [b \in 0..FanoutLast |->
        Cardinality({i \in 1..Len(ids) : ids[i][1] <= b})]

\* get_object_idx up to the loop (lines 289-295)
GOI_Start ==
    /\ pack.pc = "get_object_idx"
    /\ pack' = [pack EXCEPT
                   !.pc = "goi_loop",
                   !.i = IF pack.id[1] > 0
                         THEN pack.fanout_table[pack.id[1] - 1] ELSE 0]
    /\ UNCHANGED <<key, dv, viewVars, logVars, blameVars>>

\* if (cmp == 0) return i; else if (cmp > 0) break; (lines 301-304)
goi_breaks(cmp) == cmp > 0

\* one turn of the while loop, or its end (lines 296-308)
GOI_Iter ==
    /\ pack.pc = "goi_loop"
    /\ LET totobj == pack.fanout_table[FanoutLast] IN
       IF pack.i < totobj
       THEN LET cmp == got_object_id_cmp(pack.id,
                                         pack.sorted_ids[pack.i + 1])
            IN IF cmp = 0
               THEN pack' = [pack EXCEPT !.pc = "goi_done", !.ret = pack.i]
               ELSE IF goi_breaks(cmp)
               THEN pack' = [pack EXCEPT !.pc = "goi_done", !.ret = -1]
               ELSE pack' = [pack EXCEPT !.i = @ + 1]
       ELSE pack' = [pack EXCEPT !.pc = "goi_done", !.ret = -1]
    /\ UNCHANGED <<key, dv, viewVars, logVars, blameVars>>

\* A pack index with strictly ascending sorted_ids and the fan-out table
\* that belongs to them, and an id to look up
FindInit ==
    /\ \E S \in SUBSET ObjectIds, id \in ObjectIds :
          /\ Cardinality(S) <= MaxObjs
          /\ pack = [pc |-> "get_object_idx",
                     sorted_ids |-> SortedIds(S),
                     fanout_table |-> FanoutOf(SortedIds(S)),
                     id |-> id, i |-> 0, ret |-> -1]

FindNext == GOI_Start \/ GOI_Iter

InitFind == FindInit /\ KeyIdle /\ LogIdle /\ ViewIdle /\ BlameIdle /\ DiffIdle

SpecFind == InitFind /\ [][FindNext]_vars

\* ------------------------------------------------------------------------
\* lib/pack.c: opening a pack index (got_packidx_open)
\* ------------------------------------------------------------------------
\* Fan-out tables read from the file: constant up to entry p and constant
\* after it, rising or falling between entry p and entry p + 1
StepTable(p, before, after) ==
    [b \in 0..FanoutLast |-> IF b <= p THEN before ELSE after]

FanoutTables ==
    {StepTable(p, v[1], v[2]) :
        p \in 0..(FanoutLast - 1), v \in (0..MaxObjs) \X (0..MaxObjs)}

\* verify_fanout_table: the loop runs while i < 0xff - 1
verify_fanout_table(fanout_table) ==
    IF \E i \in 0..(FanoutLast - 1 - 1) :
          fanout_table[i] > fanout_table[i + 1]
    THEN "GOT_ERR_BAD_PACKIDX" ELSE "NULL"

\* got_packidx_open: io is what the file system does (the file cannot be
\* opened, the pack file cannot be stat-ed, the file ends early, or all reads
\* succeed), csum_ok whether the trailer's checksum matches
got_packidx_open(f, io, csum_ok) ==
    IF io = "nofile" THEN "GOT_ERR_BAD_PATH"
    ELSE IF io = "nostat" THEN "errno"
    ELSE IF ~f.magic_ok \/ ~f.version_ok THEN "GOT_ERR_BAD_PACKIDX"
    ELSE IF verify_fanout_table(f.fanout_table) # "NULL"
    THEN verify_fanout_table(f.fanout_table)
    ELSE IF io = "short" THEN "GOT_ERR_BAD_PACKIDX"
    ELSE IF ~csum_ok THEN "GOT_ERR_PACKIDX_CSUM"
    ELSE "NULL"

PO_Open ==
    /\ pack.pc = "got_packidx_open"
    /\ \E io \in {"ok", "nofile", "nostat", "short"}, csum_ok \in BOOLEAN :
          LET err == got_packidx_open(pack.file, io, csum_ok) IN
          pack' = [pack EXCEPT !.pc = "opened", !.err = err,
                               !.packidx = (err = "NULL")]
    /\ UNCHANGED <<key, dv, viewVars, logVars, blameVars>>

\* An index file: its magic and version words and its fan-out table
OpenInit ==
    /\ \E magic_ok \in BOOLEAN, version_ok \in BOOLEAN,
          fanout_table \in FanoutTables :
          pack = [pc |-> "got_packidx_open",
                  file |-> [magic_ok |-> magic_ok, version_ok |-> version_ok,
                            fanout_table |-> fanout_table],
                  err |-> "NULL", packidx |-> FALSE]

OpenNext == PO_Open

InitOpen == OpenInit /\ KeyIdle /\ LogIdle /\ ViewIdle /\ BlameIdle /\ DiffIdle

SpecOpen == InitOpen /\ [][OpenNext]_vars

\* ------------------------------------------------------------------------
\* lib/pack.c: object offsets (get_object_offset)
\* ------------------------------------------------------------------------
MaxOffset == 1          \* values of the low bits of an offset

\* A 32-bit entry of offsets[]: its high bit and its low 31 bits.  A 64-bit
\* entry of large_offsets[]: its high bit and its low 63 bits.
Offsets32 == [high : {0, 1}, low : 0..(MaxObjs + 1)]
Offsets64 == [high : {0, 1}, low : 0..MaxOffset]

\* large_offsets is NULL: got_packidx_open read no large-offset table
NoTable == <<>>

\* the check before large_offsets[idx] is read (line 278)
large_idx_rejected(idx, totobj, large_offsets) ==
    idx < 0 \/ idx > totobj \/ large_offsets = NoTable

\* loffset > INT64_MAX ? -1 : (off_t)loffset
large_offset_result(loffset) == IF loffset.high = 1 THEN -1 ELSE loffset.low

\* get_object_offset: offset & GOT_PACKIDX_OFFSET_VAL_IS_LARGE_IDX tests the
\* high bit, offset & GOT_PACKIDX_OFFSET_VAL_MASK keeps the low 31 bits; a
\* read past the end of large_offsets[] returns whatever the memory behind
\* the table holds, or faults
GOO_Call ==
    /\ pack.pc = "get_object_offset"
    /\ LET offset == pack.offsets[pack.idx + 1]
           idx == offset.low
       IN IF offset.high = 1
          THEN IF large_idx_rejected(idx, pack.totobj, pack.large_offsets)
               THEN pack' = [pack EXCEPT !.pc = "goo_done", !.ret = -1]
               ELSE IF idx < Len(pack.large_offsets)
               THEN pack' = [pack EXCEPT
                        !.pc = "goo_done",
                        !.ret = large_offset_result(
                                    pack.large_offsets[idx + 1])]
               ELSE \/ \E loffset \in Offsets64 :
                          pack' = [pack EXCEPT
                                      !.pc = "goo_done",
                                      !.ret = large_offset_result(loffset)]
                    \/ pack' = [pack EXCEPT !.pc = "goo_fault"]
          ELSE pack' = [pack EXCEPT !.pc = "goo_done",
                                    !.ret = offset.low]
    /\ UNCHANGED <<key, dv, viewVars, logVars, blameVars>>

\* An open pack index of totobj objects: offsets[] and, for a pack file
\* above 2 GB, large_offsets[] have totobj entries each (lines 161-217)
OffsetInit ==
    /\ \E totobj \in 1..(MaxObjs - 1) :
       \E offset \in Offsets32,
          large_offsets \in {NoTable} \cup [1..totobj -> Offsets64],
          idx \in 0..(totobj - 1) :
          pack = [pc |-> "get_object_offset", totobj |-> totobj,
                  offsets |-> [i \in 1..totobj |->
                                 IF i = idx + 1 THEN offset
                                 ELSE [high |-> 0, low |-> 0]],
                  large_offsets |-> large_offsets,
                  idx |-> idx, ret |-> 0]

OffsetNext == GOO_Call

InitOffset == OffsetInit /\ KeyIdle /\ LogIdle /\ ViewIdle /\ BlameIdle
    /\ DiffIdle

SpecOffset == InitOffset /\ [][OffsetNext]_vars

\* ------------------------------------------------------------------------
\* lib/pack.c: object record headers (parse_object_type_and_size)
\* ------------------------------------------------------------------------
\* Object types in the first header byte: blob, offset delta, ref delta
GOT_OBJ_TYPE_COMMIT == 1
GOT_OBJ_TYPE_TREE == 2
GOT_OBJ_TYPE_BLOB == 3
GOT_OBJ_TYPE_TAG == 4
GOT_OBJ_TYPE_OFFSET_DELTA == 6
GOT_OBJ_TYPE_REF_DELTA == 7

\* A header byte: the GOT_PACK_OBJ_SIZE_MORE bit, the type bits (first byte
\* only) and the size bits
HeaderBytes ==
    [more : BOOLEAN, type : {GOT_OBJ_TYPE_BLOB, GOT_OBJ_TYPE_OFFSET_DELTA},
     val : {0, 15}]
    \cup [more : BOOLEAN, type : {0}, val : {0, 127}]

\* s |= ((sizeN & GOT_PACK_OBJ_SIZE_VAL_MASK) << shift) is computed in int:
\* the value is defined only while it fits
size_shift_defined(val, shift) ==
    val = 0 \/ shift <= 24 \/ (shift = 25 /\ val < 64)

\* one turn of the do-while loop (lines 423-441): the byte read, or the end
\* of the file
POTS_Byte ==
    /\ pack.pc = "parse_object_type_and_size"
    /\ IF pack.i > 9
       THEN pack' = [pack EXCEPT !.pc = "pots_done",
                                 !.err = "GOT_ERR_NO_SPACE"]
       ELSE \/ pack' = [pack EXCEPT !.pc = "pots_done",
                                    !.err = "GOT_ERR_BAD_PACKIDX"]
            \/ \E sizeN \in HeaderBytes :
                  /\ (pack.i = 0) <=> (sizeN.type # 0)
                  /\ LET shift == 4 + 7 * (pack.i - 1)
                         p == [pack EXCEPT
                                 !.t = IF pack.i = 0 THEN sizeN.type ELSE @,
                                 !.s = Append(@, sizeN.val),
                                 !.s_defined =
                                     IF pack.i = 0 THEN TRUE
                                     ELSE @ /\ size_shift_defined(sizeN.val,
                                                                  shift),
                                 !.i = @ + 1]
                     IN pack' = IF sizeN.more THEN p
                                ELSE [p EXCEPT !.pc = "pots_done",
                                               !.len = p.i]
    /\ UNCHANGED <<key, dv, viewVars, logVars, blameVars>>

\* parse_object_type_and_size is entered at the start of a record; s holds
\* the size bits of the bytes read, lowest first
HeaderInit ==
    pack = [pc |-> "parse_object_type_and_size", i |-> 0, t |-> 0,
            s |-> <<>>, s_defined |-> TRUE, len |-> 0, err |-> "NULL"]

HeaderNext == POTS_Byte

InitHeader == HeaderInit /\ KeyIdle /\ LogIdle /\ ViewIdle /\ BlameIdle
    /\ DiffIdle

SpecHeader == InitHeader /\ [][HeaderNext]_vars

\* ------------------------------------------------------------------------
\* lib/pack.c: delta chains (resolve_delta_chain, resolve_offset_delta,
\* resolve_ref_delta)
\* ------------------------------------------------------------------------
MaxPackOff == 5         \* offsets in the pack files
DepthCap == 2           \* chain entries a depth cap would allow
MaxEntries == DepthCap + 1

\* lengths of a record header as parse_object_type_and_size reports them
HeaderLens == {1, 2}

\* What the bytes at an offset decode to: the type and length of a record
\* header, and behind the header the negative offset of an offset delta, or
\* the offset at which the pack index has the base id of a ref delta (0:
\* no pack has it).  GOT_OBJ_TYPE 0 is no object type.
Unread == [known |-> FALSE, type |-> 0, tslen |-> 0, o |-> 0]

Contents ==
    {c \in [known : {TRUE},
            type : {0, GOT_OBJ_TYPE_BLOB, GOT_OBJ_TYPE_TAG,
                    GOT_OBJ_TYPE_OFFSET_DELTA, GOT_OBJ_TYPE_REF_DELTA},
            tslen : HeaderLens, o : 0..MaxPackOff] :
        c.type \in {0, GOT_OBJ_TYPE_BLOB, GOT_OBJ_TYPE_TAG} => c.o = 0}

PlainTypes ==
    {GOT_OBJ_TYPE_COMMIT, GOT_OBJ_TYPE_TREE, GOT_OBJ_TYPE_BLOB,
     GOT_OBJ_TYPE_TAG}

\* A record of a well-formed pack at offset b: a plain object, or an offset
\* delta whose base lies before it and is longer than the delta's header
WellFormedRecord(c, b) ==
    \/ c.type \in PlainTypes
    \/ c.type = GOT_OBJ_TYPE_OFFSET_DELTA /\ c.o > c.tslen /\ c.o < b

\* open_packed_object from parse_object_type_and_size on (lines 744-768);
\* open_offset_delta_object calls resolve_delta_chain with the offset of
\* the record (lines 687-688)
OPO_Open ==
    /\ pack.pc = "open_packed_object"
    /\ pack' = IF pack.type \in {GOT_OBJ_TYPE_COMMIT, GOT_OBJ_TYPE_TREE,
                                 GOT_OBJ_TYPE_BLOB}
               THEN [pack EXCEPT !.pc = "done", !.obj_type = pack.type]
               ELSE IF pack.type = GOT_OBJ_TYPE_OFFSET_DELTA
               THEN [pack EXCEPT !.pc = "resolve_delta_chain",
                                 !.delta_type = GOT_OBJ_TYPE_OFFSET_DELTA,
                                 !.delta_offset = pack.offset]
               ELSE [pack EXCEPT !.pc = "done", !.err = "GOT_ERR_NOT_IMPL"]
    /\ UNCHANGED <<key, dv, viewVars, logVars, blameVars>>

\* resolve_delta_chain (lines 616-652); when the chain is resolved
\* open_offset_delta_object takes the object's type from the plain entry
\* of the chain (lines 692-695)
RDC_Enter ==
    /\ pack.pc = "resolve_delta_chain"
    /\ pack.nentries < MaxEntries
    /\ LET p == [pack EXCEPT
                   !.nentries = @ + 1,
                   !.entries = Append(@, [type |-> pack.delta_type,
                                          offset |-> pack.delta_offset])]
       IN
       pack' = IF pack.delta_type \in PlainTypes
               THEN [p EXCEPT !.pc = "done", !.obj_type = pack.delta_type]
               ELSE IF pack.delta_type = GOT_OBJ_TYPE_OFFSET_DELTA
               THEN [p EXCEPT !.pc = "resolve_offset_delta"]
               ELSE IF pack.delta_type = GOT_OBJ_TYPE_REF_DELTA
               THEN [p EXCEPT !.pc = "resolve_ref_delta"]
               ELSE [p EXCEPT !.pc = "done", !.err = "GOT_ERR_NOT_IMPL"]
    /\ UNCHANGED <<key, dv, viewVars, logVars, blameVars>>

\* *base_offset = (offset - negoffset) (line 519)
parse_offset_delta_base(offset, negoffset) == offset - negoffset

\* parse_offset_delta (lines 506-523): the negative offset is read behind
\* the header of the record at pack.rec
ROD_ParseOffset ==
    /\ pack.pc = "resolve_offset_delta"
    /\ LET negoffset == pack.file[pack.rec].o
           base_offset == parse_offset_delta_base(pack.delta_offset,
                                                  negoffset)
       IN pack' = IF base_offset <= 0
                  THEN [pack EXCEPT !.pc = "done", !.negoffset = negoffset,
                                    !.err = "GOT_ERR_BAD_PACKFILE"]
                  ELSE [pack EXCEPT !.pc = "read_base",
                                    !.negoffset = negoffset,
                                    !.base_offset = base_offset]
    /\ UNCHANGED <<key, dv, viewVars, logVars, blameVars>>

\* resolve_ref_delta up to fseeko (lines 573-599): the base id is looked up
\* in the pack indexes
RRD_Search ==
    /\ pack.pc = "resolve_ref_delta"
    /\ LET base_offset == pack.file[pack.rec].o IN
       pack' = IF base_offset = 0
               THEN [pack EXCEPT !.pc = "done", !.err = "GOT_ERR_NO_OBJ"]
               ELSE [pack EXCEPT !.pc = "read_base", !.negoffset = 0,
                                 !.base_offset = base_offset]
    /\ UNCHANGED <<key, dv, viewVars, logVars, blameVars>>

\* fseeko to the base, parse_object_type_and_size there, and the call of
\* resolve_delta_chain with base_offset + base_tslen (lines 540-553,
\* 596-608).  Bytes not read before decode to anything.
ReadBase ==
    /\ pack.pc = "read_base"
    /\ IF pack.base_offset > MaxPackOff
       THEN pack' = [pack EXCEPT !.pc = "done",
                                 !.err = "GOT_ERR_BAD_PACKIDX"]
       ELSE \E c \in Contents :
               /\ pack.file[pack.base_offset].known
                     => c = pack.file[pack.base_offset]
               /\ pack' = [pack EXCEPT
                     !.pc = "resolve_delta_chain",
                     !.file[pack.base_offset] = c,
                     !.delta_type = c.type,
                     !.delta_offset = pack.base_offset + c.tslen,
                     !.rec = pack.base_offset,
                     !.seen = @ \cup {pack.base_offset},
                     !.cyclic = @ \/ pack.base_offset \in pack.seen,
                     !.on_chain = @ /\ pack.base_offset = pack.true_base,
                     !.wf = @ /\ (pack.on_chain
                                  /\ pack.base_offset = pack.true_base
                                    => WellFormedRecord(c, pack.base_offset)),
                     !.true_base = pack.base_offset - c.o]
    /\ UNCHANGED <<key, dv, viewVars, logVars, blameVars>>

\* open_packed_object has found the object in a pack index and is about to
\* parse the header of its record at offset (lines 708-742).  wf: the records of the chain read so far are those of a
\* well-formed pack; on_chain: every base read so far is the base its delta
\* names; true_base: the offset the last record names as its base; seen:
\* the offsets of the records entered; cyclic: a record was entered twice.
DeltaInit ==
    /\ \E rec \in 1..MaxPackOff, c \in Contents :
             pack = [pc |-> "open_packed_object",
                     file |-> [b \in 1..MaxPackOff |->
                                  IF b = rec THEN c ELSE Unread],
                     offset |-> rec, type |-> c.type, obj_type |-> 0,
                     delta_type |-> 0, delta_offset |-> 0, rec |-> rec,
                     base_offset |-> 0, negoffset |-> 0,
                     nentries |-> 0, entries |-> <<>>, err |-> "NULL",
                     seen |-> {rec}, cyclic |-> FALSE,
                     on_chain |-> TRUE, wf |-> WellFormedRecord(c, rec),
                     true_base |-> rec - c.o]

DeltaNext == OPO_Open \/ RDC_Enter \/ ROD_ParseOffset \/ RRD_Search \/ ReadBase

InitDelta == DeltaInit /\ KeyIdle /\ LogIdle /\ ViewIdle /\ BlameIdle
    /\ DiffIdle

SpecDelta == InitDelta /\ [][DeltaNext]_vars

\* ------------------------------------------------------------------------
\* lib/pack.c: the files and directories an operation opens
\* ------------------------------------------------------------------------
MaxOps == 3             \* operations called one after the other
MaxIdx == 2             \* pack index files in the pack directory

\* How one got_packidx_open call ends (lines 98-238), and how many FILEs it
\* leaves open: fopen fails; get_packfile_size fails and the function
\* returns at once; a read or a check fails and done: closes f; success.
PackidxOutcomes == {"fopen_failed", "size_failed", "read_failed", "opened"}

\* search_packidx up to the loop (lines 312-326), called when no operation
\* is running
SP_Open ==
    /\ pack.pc = "idle"
    /\ pack.ops < MaxOps
    /\ \E ok \in BOOLEAN, dents \in 0..MaxIdx :
          pack' = IF ok
                  THEN [pack EXCEPT !.pc = "readdir", !.ops = @ + 1,
                                    !.err = "NULL", !.packdir = TRUE,
                                    !.ndir = @ + 1, !.dents = dents]
                  ELSE [pack EXCEPT !.pc = "sp_done", !.ops = @ + 1,
                                    !.err = "errno", !.packdir = FALSE,
                                    !.dents = 0]
    /\ UNCHANGED <<key, dv, viewVars, logVars, blameVars>>

\* one round of the readdir loop for a pack index file (lines 328-351),
\* got_packidx_open included
SP_Iter ==
    /\ pack.pc = "readdir"
    /\ IF pack.dents = 0
       THEN pack' = [pack EXCEPT !.pc = "sp_done", !.err = "GOT_ERR_NO_OBJ"]
       ELSE \/ pack' = [pack EXCEPT !.pc = "sp_done", !.dents = @ - 1,
                                    !.err = "GOT_ERR_NO_MEM"]
            \/ \E out \in PackidxOutcomes, found \in BOOLEAN :
                  LET err == CASE out = "fopen_failed" -> "GOT_ERR_BAD_PATH"
                               [] out = "size_failed" -> "errno"
                               [] out = "read_failed"
                                     -> "GOT_ERR_BAD_PACKIDX"
                               [] OTHER -> "NULL"
                      \* f is open from fopen on; done: fclose(f)
                      f == IF out = "size_failed" THEN 1 ELSE 0
                      p == [pack EXCEPT !.dents = @ - 1, !.nidx = @ + f,
                                        !.err = err]
                  IN pack' = IF out # "opened" \/ found
                             THEN [p EXCEPT !.pc = "sp_done"]
                             ELSE p
    /\ UNCHANGED <<key, dv, viewVars, logVars, blameVars>>

\* done: of search_packidx (lines 353-358).  closedir of the NULL that a
\* failed opendir left is undefined.
SP_Done ==
    /\ pack.pc = "sp_done"
    /\ IF pack.packdir
       THEN pack' = [pack EXCEPT !.pc = "idle", !.ndir = @ - 1,
                                 !.packdir = FALSE]
       ELSE \E crash \in BOOLEAN :
               pack' = [pack EXCEPT !.pc = IF crash THEN "closedir_fault"
                                           ELSE "idle"]
    /\ UNCHANGED <<key, dv, viewVars, logVars, blameVars>>

\* got_packfile_extract_object (lines 842-891)
EX_Extract ==
    /\ pack.pc = "idle"
    /\ pack.ops < MaxOps
    /\ \E out \in {"not_packed", "opentemp_failed", "fopen_failed",
                   "fseeko_failed", "dump_failed", "not_impl", "dumped"} :
          LET temp == out \notin {"not_packed", "opentemp_failed"}
              packfile == temp /\ out # "fopen_failed"
              err == CASE out = "not_packed" -> "GOT_ERR_OBJ_NOT_PACKED"
                       [] out = "opentemp_failed" -> "GOT_ERR_FILE_OPEN"
                       [] out \in {"fopen_failed", "fseeko_failed"}
                             -> "errno"
                       [] out = "dump_failed" -> "GOT_ERR_BAD_PACKFILE"
                       [] out = "not_impl" -> "GOT_ERR_NOT_IMPL"
                       [] OTHER -> "NULL"
              \* done: if (packfile) fclose(packfile);
              \*       if (err && *f) fclose(*f);
              npack == IF packfile THEN 1 - 1 ELSE 0
              ntemp == IF temp /\ err = "NULL" THEN 1 ELSE 0
          IN pack' = [pack EXCEPT !.ops = @ + 1, !.err = err,
                                  !.npack = @ + npack,
                                  !.ntemp = @ + ntemp,
                                  !.handed = @ + ntemp]
    /\ UNCHANGED <<key, dv, viewVars, logVars, blameVars>>

\* Nothing is open before the first operation.  nidx, ndir, npack, ntemp:
\* the open index files, directories, pack files and temporary files;
\* handed: the temporary files returned to callers.
HandlesInit ==
    pack = [pc |-> "idle", ops |-> 0, err |-> "NULL", packdir |-> FALSE,
            dents |-> 0, nidx |-> 0, ndir |-> 0, npack |-> 0, ntemp |-> 0,
            handed |-> 0]

HandlesNext == SP_Open \/ SP_Iter \/ SP_Done \/ EX_Extract

InitHandles == HandlesInit /\ KeyIdle /\ LogIdle /\ ViewIdle /\ BlameIdle
    /\ DiffIdle

SpecHandles == InitHandles /\ [][HandlesNext]_vars

\* ------------------------------------------------------------------------
\* tog.c: the diff view's search (view_search_start, view_input's n and N,
\* search_start_diff_view, search_next_diff_view)
\* ------------------------------------------------------------------------
MaxDiffLines == 3       \* lines of the diff
DiffRows == 2           \* rows of the window below the header line

\* draw_file sets eof when getline runs off the file while it fills the
\* window (lines 3366-3373)
draw_file_eof(first, nlines) == first + DiffRows - 1 > nlines

\* open_diff_view and the first show_diff_view (lines 3935, 3981); match is
\* the set of lines view->regex matches
DiffInit ==
    \E n \in 1..MaxDiffLines :
       dv = [pc |-> "input", nlines |-> n, match |-> {},
             first_displayed_line |-> 1, selected_line |-> 1,
             matched_line |-> 0, eof |-> draw_file_eof(1, n),
             searching |-> 0, search_started |-> FALSE,
             search_next_done |-> 0, lineno |-> 0, iters |-> 0,
             searched |-> FALSE]

\* case 'k' and case 'j' of input_diff_view (lines 4166-4173, 4189-4196),
\* followed by the redraw
DV_Scroll ==
    /\ dv.pc = "input"
    /\ \E ch \in {"k", "j"} :
          LET first == IF ch = "k"
                       THEN (IF dv.first_displayed_line > 1
                             THEN dv.first_displayed_line - 1
                             ELSE dv.first_displayed_line)
                       ELSE (IF ~dv.eof THEN dv.first_displayed_line + 1
                             ELSE dv.first_displayed_line)
          IN dv' = [dv EXCEPT !.first_displayed_line = first,
                              !.eof = draw_file_eof(first, dv.nlines),
                              !.searched = FALSE]
    /\ UNCHANGED <<key, pack, viewVars, logVars, blameVars>>

\* case 'a' and case 'w' of input_diff_view (lines 4138-4151): the diff is
\* created anew, with other lines
DV_Recreate ==
    /\ dv.pc = "input"
    /\ \E n \in 1..MaxDiffLines, m \in SUBSET (1..MaxDiffLines) :
          /\ m \subseteq 1..n
          /\ ~dv.search_started => m = {}
          /\ dv' = [dv EXCEPT !.nlines = n, !.match = m,
                              !.first_displayed_line = 1,
                              !.matched_line = 0,
                              !.eof = draw_file_eof(1, n),
                              !.searched = FALSE]
    /\ UNCHANGED <<key, pack, viewVars, logVars, blameVars>>

\* case '/' of view_input: view_search_start (lines 850-890) compiles the
\* pattern typed, search_start_diff_view (lines 3796-3803) clears
\* matched_line, and the first search runs forward
DV_SearchStart ==
    /\ dv.pc = "input"
    /\ \E m \in SUBSET (1..dv.nlines) :
          dv' = [dv EXCEPT !.match = m, !.matched_line = 0,
                           !.search_started = TRUE,
                           !.searching = TOG_SEARCH_FORWARD,
                           !.search_next_done = 0,
                           !.searched = FALSE,
                           !.pc = "search_next"]
    /\ UNCHANGED <<key, pack, viewVars, logVars, blameVars>>

\* case 'N' and case 'n' of view_input (lines 1064-1073)
DV_SearchNext ==
    /\ dv.pc = "input"
    /\ dv.search_started
    /\ \E ch \in {"n", "N"} :
          dv' = [dv EXCEPT !.searching = IF ch = "n" THEN TOG_SEARCH_FORWARD
                                         ELSE TOG_SEARCH_BACKWARD,
                           !.search_next_done = 0,
                           !.searched = FALSE,
                           !.pc = "search_next"]
    /\ UNCHANGED <<key, pack, viewVars, logVars, blameVars>>

\* search_next_diff_view up to its loop (lines 3815-3826)
DV_Enter ==
    /\ dv.pc = "search_next"
    /\ dv' = IF dv.searching = 0
             THEN [dv EXCEPT !.search_next_done = TOG_SEARCH_HAVE_MORE,
                             !.pc = "input"]
             ELSE [dv EXCEPT
                     !.lineno = IF dv.matched_line # 0
                                THEN (IF dv.searching = TOG_SEARCH_FORWARD
                                      THEN dv.matched_line + 1
                                      ELSE dv.matched_line - 1)
                                ELSE dv.first_displayed_line,
                     !.iters = 0,
                     !.pc = "loop"]
    /\ UNCHANGED <<key, pack, viewVars, logVars, blameVars>>

\* one round of while (1) in search_next_diff_view (lines 3828-3866)
DV_Loop ==
    /\ dv.pc = "loop"
    /\ dv.iters <= 2 * MaxDiffLines
    /\ LET out == dv.lineno <= 0 \/ dv.lineno > dv.nlines
           lineno == IF out
                     THEN (IF dv.searching = TOG_SEARCH_FORWARD THEN 1
                           ELSE dv.nlines)
                     ELSE dv.lineno
       IN dv' = IF out /\ dv.matched_line = 0
                THEN [dv EXCEPT !.search_next_done = TOG_SEARCH_HAVE_MORE,
                                !.iters = @ + 1,
                                !.pc = "finish"]
                ELSE IF lineno \in dv.match
                THEN [dv EXCEPT !.search_next_done = TOG_SEARCH_HAVE_MORE,
                                !.matched_line = lineno,
                                !.lineno = lineno,
                                !.iters = @ + 1,
                                !.pc = "finish"]
                ELSE [dv EXCEPT !.lineno = IF dv.searching = TOG_SEARCH_FORWARD
                                           THEN lineno + 1 ELSE lineno - 1,
                                !.iters = @ + 1]
    /\ UNCHANGED <<key, pack, viewVars, logVars, blameVars>>

\* the end of search_next_diff_view (lines 3870-3875), followed by the
\* redraw
DV_Finish ==
    /\ dv.pc = "finish"
    /\ LET first == IF dv.matched_line # 0 THEN dv.matched_line
                    ELSE dv.first_displayed_line
       IN dv' = [dv EXCEPT !.first_displayed_line = first,
                           !.selected_line = IF dv.matched_line # 0 THEN 1
                                             ELSE @,
                           !.eof = draw_file_eof(first, dv.nlines),
                           !.searched = TRUE,
                           !.pc = "input"]
    /\ UNCHANGED <<key, pack, viewVars, logVars, blameVars>>

DiffNext ==
    \/ DV_Scroll
    \/ DV_Recreate
    \/ DV_SearchStart
    \/ DV_SearchNext
    \/ DV_Enter
    \/ DV_Loop
    \/ DV_Finish

InitDiff ==
    DiffInit /\ KeyIdle /\ PackIdle /\ LogIdle /\ ViewIdle /\ BlameIdle

SpecDiff == InitDiff /\ [][DiffNext]_vars

\* ------------------------------------------------------------------------
\* C1
\* ------------------------------------------------------------------------
LiveViews == {w \in ViewIds : views[w].alive}

FocussedViews == {w \in ViewIds : views[w].alive /\ views[w].focussed}

\* C1: after every iteration of the main loop exactly one view among the
\* parent views and their children has its focus bit set, or none when the
\* list of parent views is empty.
C1_OneFocus ==
    ~fault => Cardinality(FocussedViews) = (IF vlist = <<>> THEN 0 ELSE 1)

\* A parent and its child are both alive after Tab moved the focus to the
\* child and a further parent view is in the list.
C1_Witness ==
    /\ Len(vlist) >= 2
    /\ \E p \in ViewIds : /\ views[p].alive /\ views[p].child # NULL
                          /\ views[views[p].child].focussed
                          /\ views[p].focus_child

\* ------------------------------------------------------------------------
\* Commit queue and loader thread
\* ------------------------------------------------------------------------

\* C2: the entries of the commit queue carry the idx values 0 .. ncommits-1
\* in list order, in every reachable state, also after a reload.
C2_IdxContiguous ==
    /\ s.ncommits = Len(s.commits)
    /\ \A i \in 1..Len(s.commits) : s.commits[i].idx = i - 1

\* After a reload by Backspace the new loader has appended MaxCommits entries while the
\* UI thread waits for a key.
C2_Witness ==
    /\ s.in_repo_path < MaxPathDepth
    /\ Len(s.commits) = MaxCommits
    /\ ui.pc = "wgetch"

IsPrefix(p, q) ==
    Len(p) <= Len(q) /\ \A i \in 1..Len(p) : q[i] = p[i]

\* C3: while a loader exists (from its creation until it is joined by a
\* reload or a close) every step leaves the entries already in the queue
\* as they are and in place: the queue before is a prefix of the queue after.
C3_PrefixStable ==
    [][(lt.pc # "none" /\ lt'.pc # "none") => IsPrefix(s.commits, s'.commits)]_vars

\* The loader has just appended the last of MaxCommits entries behind the
\* ones the UI thread could already see.
C3_Witness ==
    /\ lt.pc = "qc_while"
    /\ Len(s.commits) = MaxCommits
    /\ s.first_displayed_entry = 1

\* C4 as amended: entries are inserted only by the loader thread holding
\* tog_mutex, and removed only by the UI thread holding tog_mutex once the
\* loader has been joined.
C4_MutationLocked ==
    /\ hist.last_mut.op # "none" => hist.last_mut.held
    /\ hist.last_mut.op = "insert" => hist.last_mut.by = "loader"
    /\ hist.last_mut.op = "remove" =>
          hist.last_mut.by = "ui" /\ hist.last_mut.joined

\* The UI thread has emptied a queue the loader had filled.
C4_Witness ==
    /\ hist.last_mut.op = "remove"
    /\ s.commits = <<>>
    /\ s.graph_pos = 0
    /\ ui.pc = "show"

\* C4 as stated: every mutation of the commit queue is made by the loader
\* thread while it holds tog_mutex.
C4_LoaderOnly ==
    hist.last_mut.op # "none" =>
        hist.last_mut.by = "loader" /\ hist.last_mut.held

\* C5: searching, search_next_done, commits_needed, load_all, log_complete
\* and quit are read and written only by a thread that holds tog_mutex.
C5_FlagsUnderMutex ==
    hist.unguarded = {}

UIUnlockedAt ==
    {"none", "vl_start", "wgetch", "sn_wgetch", "yield", "cw", "cw_woken",
     "join", "returned"}

\* C6: the UI thread holds tog_mutex except around the key read, the join,
\* the yield and the wait on commit_loaded, and view_loop returns with
\* tog_mutex released.
C6_MutexDiscipline ==
    /\ ui.pc \notin UIUnlockedAt => tog_mutex = "ui"
    /\ ui.pc = "returned" => tog_mutex # "ui"

\* C7: once stop_log_thread has set quit and signalled need_commits, the
\* loader exits and pthread_join returns.
C7_JoinReturns ==
    (ui.pc = "join") ~> (ui.pc # "join" /\ lt.pc = "none")

\* The loader has exited on quit before it had queued the whole commit graph
\* and the UI thread is in pthread_join.
C7_Witness ==
    /\ ui.pc = "join"
    /\ lt.pc = "exited"
    /\ s.quit
    /\ s.ncommits < s.graph_len

\* C10: at most one loader thread exists per log view, and one exists
\* exactly while the view's thread handle is set.
C10_OneLoader ==
    /\ hist.loaders <= 1
    /\ s.thread <=> hist.loaders = 1
    /\ s.thread <=> lt.pc # "none"

\* After a reload by Backspace has joined the first loader a second one is
\* running.
C10_Witness ==
    /\ s.in_repo_path < MaxPathDepth
    /\ s.thread
    /\ lt.pc = "qc_lock"

\* ------------------------------------------------------------------------
\* Blame lines
\* ------------------------------------------------------------------------
Cancelled == {"GOT_ERR_CANCELLED", "GOT_ERR_ITER_COMPLETED"}

\* C8: once done is set no step of a running annotator changes lines[],
\* lines[] is freed only when the annotator has been joined, and a view
\* closed by 'q' whose annotator was cancelled reports success.
C8_CancelClean ==
    /\ [][(blame.done /\ bt.pc # "none" /\ bt'.pc # "none") =>
            blame'.lines = blame.lines]_vars
    /\ [](blame.lines = <<>> => bt.pc = "none")
    /\ []((ui.pc = "returned" /\ ui.dying /\ bt.ret \in Cancelled)
            => ui.err = "NULL")

\* The view was closed by 'q', blame_cb had seen the flag and ended got_blame
\* before every line was annotated, and view_loop returned success.
C8_Witness ==
    /\ ui.pc = "returned"
    /\ ui.dying
    /\ bt.ret = "GOT_ERR_ITER_COMPLETED"
    /\ bt.n < MaxCallbacks
    /\ ui.err = "NULL"

\* C9: within one blame run a slot of lines[] that is annotated keeps its id
\* and its flag, and a slot becomes annotated only by the callback for its
\* line number, with that callback's id.
C9_FilledOnce ==
    [][\A i \in 1..Len(blame.lines) :
          blame'.lines # <<>> =>
             /\ blame.lines[i].annotated => blame'.lines[i] = blame.lines[i]
             /\ (~blame.lines[i].annotated /\ blame'.lines[i].annotated) =>
                   (bt.lineno = i /\ blame'.lines[i].id = bt.id)]_vars

\* blame_cb has returned from a second callback for a line that an earlier
\* callback had annotated with another commit.
C9_Witness ==
    /\ bt.pc = "blame"
    /\ bt.lineno \in 1..Len(blame.lines)
    /\ blame.lines[bt.lineno].annotated
    /\ blame.lines[bt.lineno].id # bt.id

\* ------------------------------------------------------------------------
\* C11
\* ------------------------------------------------------------------------
\* C11: at most one annotator thread exists per blame view.  The keys p, c
\* and C wait in pthread_join with done set, and the step that clears done
\* and lets run_blame allocate a new lines[] is taken only when no annotator
\* exists, so no annotator outlives the array it was started for.
C11_OneAnnotator ==
    /\ [](hist.annotators <= 1)
    /\ [](blame.thread <=> hist.annotators = 1)
    /\ [](blame.thread <=> bt.pc # "none")
    /\ []((ui.pc = "join" /\ Head(ui.k) \in {"push", "pop"}) => blame.done)
    /\ [][(ui.pc = "stopped" /\ ui'.pc = "input") =>
             /\ bt.pc = "none" /\ ~blame.thread /\ blame.done
             /\ ~blame'.done
             /\ blame'.lines = alloc_lines(blame'.nlines)]_vars

\* a second blame run has started after the first annotator had written a
\* line: the new annotator runs on a fresh array
C11_Witness ==
    /\ Len(blame.blamed_commits) = 2
    /\ bt.pc = "cb_lock"
    /\ hist.annotators = 1
    /\ blame.lines = alloc_lines(blame.nlines)
    /\ ui.pc = "wgetch"

\* ------------------------------------------------------------------------
\* C12
\* ------------------------------------------------------------------------
\* C12: after a numeric prefix N and a motion key, view_input dispatches the
\* key N times before wgetch is called again, fewer only when the view reset
\* the count; when wgetch is called the count is 0; N dispatches of 'j'
\* that the view did not cut short move the selection down N commits when
\* the history has that many.
C12_CountDispatch ==
    /\ [](hist.ndisp <= hist.prefix)
    /\ [](ui.count > 0 =>
            hist.ndisp + ui.count =
                hist.prefix + (IF ui.pc = "repeat" THEN 0 ELSE 1))
    /\ [](ui.pc = "wgetch" => ui.count = 0 /\ hist.prefix = 0)
    /\ [][(ui.pc = "input" /\ ui'.pc = "wgetch" /\ hist.prefix > 0) =>
             /\ hist.ndisp = hist.prefix \/ hist.reset
             /\ ui'.count = 0
             /\ (/\ ui.vch = "j" /\ ~hist.reset /\ hist.start >= 0
                 /\ s.graph_len > hist.start + hist.prefix)
                  => SelectedIdx(s) = hist.start + hist.prefix]_vars

\* the count MaxCount typed before 'j' has been used up: the key was
\* dispatched MaxCount times and the selection is MaxCount commits further
C12_Witness ==
    /\ ui.pc = "input" /\ ui.count = 1 /\ ui.vch = "j"
    /\ hist.prefix = MaxCount /\ hist.ndisp = MaxCount /\ ~hist.reset
    /\ hist.start >= 0
    /\ SelectedIdx(s) = hist.start + MaxCount

\* ------------------------------------------------------------------------
\* C13
\* ------------------------------------------------------------------------
RECURSIVE DecimalValue(_)
DecimalValue(ds) ==
    IF ds = <<>> THEN 0
    ELSE DecimalValue(SubSeq(ds, 1, Len(ds) - 1)) * 10 + ds[Len(ds)]

\* C13: for every sequence of digits that starts with 1-9 the count
\* get_compound_key leaves in view->count is the decimal value of the
\* sequence clamped to 9,999,999.
C13_Clamped ==
    key.pc = "done" =>
        /\ key.count = Min(DecimalValue(key.typed), CountCap)
        /\ key.count <= CountCap

\* ------------------------------------------------------------------------
\* C14
\* ------------------------------------------------------------------------
\* C14: on an index with strictly ascending sorted_ids and a consistent
\* fan-out table, get_object_idx returns the position of the id when the id
\* is in sorted_ids, wherever it sits in its bucket, and -1 when it is not.
C14_FindCorrect ==
    pack.pc = "goi_done" =>
        IF \E i \in 1..Len(pack.sorted_ids) : pack.sorted_ids[i] = pack.id
        THEN pack.ret >= 0 /\ pack.sorted_ids[pack.ret + 1] = pack.id
        ELSE pack.ret = -1

\* ------------------------------------------------------------------------
\* C15
\* ------------------------------------------------------------------------
Monotone(fanout_table) ==
    \A i \in 0..(FanoutLast - 1) : fanout_table[i] <= fanout_table[i + 1]

\* C15: got_packidx_open succeeds and hands out a pack index only if the
\* fan-out table is monotone non-decreasing over all 256 entries.
C15_OpenMonotone ==
    pack.pc = "opened" =>
        /\ pack.packidx <=> pack.err = "NULL"
        /\ pack.packidx => Monotone(pack.file.fanout_table)

\* ------------------------------------------------------------------------
\* C16
\* ------------------------------------------------------------------------
\* C16: get_object_offset returns the low 31 bits of offsets[i] when the
\* high bit is clear; otherwise it returns large_offsets[low 31 bits], and
\* fails when that value is above 2^63-1, when there is no large-offset
\* table, or when the low 31 bits do not designate an entry of the table.
C16_OffsetDecoded ==
    /\ pack.pc # "goo_fault"
    /\ pack.pc = "goo_done" =>
          LET raw == pack.offsets[pack.idx + 1] IN
          IF raw.high = 0 THEN pack.ret = raw.low
          ELSE IF pack.large_offsets = NoTable
                  \/ raw.low >= Len(pack.large_offsets)
          THEN pack.ret = -1
          ELSE IF pack.large_offsets[raw.low + 1].high = 1
          THEN pack.ret = -1
          ELSE pack.ret = pack.large_offsets[raw.low + 1].low

\* ------------------------------------------------------------------------
\* C17
\* ------------------------------------------------------------------------
\* C17: parse_object_type_and_size accepts no header of ten bytes: a header
\* it accepts is at most nine bytes long, a complete header of at most nine
\* bytes is accepted, and ten bytes are answered with GOT_ERR_NO_SPACE.
C17_TenBytesRejected ==
    pack.pc = "pots_done" =>
        /\ pack.err = "NULL" => pack.len <= 9
        /\ pack.i >= 10 => pack.err = "GOT_ERR_NO_SPACE"

\* ------------------------------------------------------------------------
\* C18
\* ------------------------------------------------------------------------
\* C18: when the negative offset of the offset delta at offset rec is rec or
\* more, resolve_offset_delta fails with GOT_ERR_BAD_PACKFILE and reads no
\* base record.
C18_NegOffsetRejected ==
    /\ (pack.pc = "read_base" /\ pack.delta_type = GOT_OBJ_TYPE_OFFSET_DELTA)
          => pack.negoffset < pack.rec
    /\ (/\ pack.pc = "done" /\ pack.delta_type = GOT_OBJ_TYPE_OFFSET_DELTA
        /\ pack.file[pack.rec].o >= pack.rec)
          => pack.err = "GOT_ERR_BAD_PACKFILE"

\* ------------------------------------------------------------------------
\* C19
\* ------------------------------------------------------------------------
\* C19: resolving an offset delta of a well-formed pack ends without an
\* error at a commit, tree, blob or tag, after no more links than the pack
\* has objects.
C19_ChainEndsPlain ==
    (pack.pc = "done" /\ pack.wf /\ pack.type = GOT_OBJ_TYPE_OFFSET_DELTA)
        => /\ pack.err = "NULL"
           /\ pack.delta_type \in PlainTypes
           /\ pack.on_chain
           /\ pack.nentries - 1 <= MaxPackOff

\* ------------------------------------------------------------------------
\* C20
\* ------------------------------------------------------------------------
\* C20: when the records form a cycle, the resolution has failed with
\* GOT_ERR_BAD_PACKFILE by the time the chain is longer than the depth cap.
C20_CycleCapped ==
    (pack.pc # "none" /\ pack.cyclic /\ pack.nentries > DepthCap)
        => pack.pc = "done" /\ pack.err = "GOT_ERR_BAD_PACKFILE"

\* ------------------------------------------------------------------------
\* C21
\* ------------------------------------------------------------------------
\* C21: the chain of a resolved offset delta lists delta records only, the
\* requested record first, and the type of the object is that of the plain
\* record the chain ends at; a delta whose base is a plain record has a
\* chain of one entry.
C21_ChainOfDeltas ==
    (/\ pack.pc = "done" /\ pack.err = "NULL"
     /\ pack.type = GOT_OBJ_TYPE_OFFSET_DELTA)
        => /\ \A i \in 1..Len(pack.entries) :
                 pack.entries[i].type \in {GOT_OBJ_TYPE_OFFSET_DELTA,
                                           GOT_OBJ_TYPE_REF_DELTA}
           /\ pack.entries[1] = [type |-> GOT_OBJ_TYPE_OFFSET_DELTA,
                                 offset |-> pack.offset]
           /\ pack.obj_type \in PlainTypes
           /\ pack.obj_type = pack.file[pack.rec].type

\* ------------------------------------------------------------------------
\* C22
\* ------------------------------------------------------------------------
\* C22: opening an object whose record in a well-formed pack is a commit,
\* tree, blob, tag, offset delta or ref delta succeeds; for a delta the
\* object has a chain and the type of a plain object.
C22_OpenSucceeds ==
    (/\ pack.pc = "done" /\ pack.wf /\ pack.on_chain
     /\ pack.type \in PlainTypes \cup {GOT_OBJ_TYPE_OFFSET_DELTA,
                                       GOT_OBJ_TYPE_REF_DELTA})
        => /\ pack.err = "NULL"
           /\ pack.obj_type \in PlainTypes
           /\ pack.type \notin PlainTypes => pack.entries # <<>>

\* ------------------------------------------------------------------------
\* C23
\* ------------------------------------------------------------------------
\* C23: when no pack operation is running, the only files open are the
\* temporary files that were returned to callers.
C23_HandlesClosed ==
    pack.pc = "idle"
        => /\ pack.nidx = 0 /\ pack.ndir = 0 /\ pack.npack = 0
           /\ pack.ntemp = pack.handed

\* ------------------------------------------------------------------------
\* C24
\* ------------------------------------------------------------------------
FatalReceived ==
    s.tog_sigint_received \/ s.tog_sigpipe_received \/ s.tog_sigterm_received

\* C24: once SIGINT, SIGPIPE or SIGTERM was received, view_loop's loop
\* condition does not lead to another view_input, and log_thread's loop
\* condition does not lead to another queue_commits.
C24_FatalSignalStops ==
    /\ [][(FatalReceived /\ ui.pc \in {"loop_cond", "init_shown"})
              => ui'.pc # "input"]_vars
    /\ [][(FatalReceived /\ lt.pc = "lt_top")
              => lt'.pc \in {"lt_top", "lt_exit"}]_vars

\* ------------------------------------------------------------------------
\* C25
\* ------------------------------------------------------------------------
\* C25: Backspace in a log view whose path is the root stops no loader and
\* leaves the queue, the displayed and selected entries, the selected row,
\* the path, log_complete and commits_needed as they are.
C25_BackspaceAtRoot ==
    [][(KeyReload("KEY_BACKSPACE") /\ s.in_repo_path = 0)
          => /\ lt' = lt /\ s'.thread = s.thread /\ s'.quit = s.quit
             /\ ui'.pc \notin {"stop", "join", "reload_rest"}
             /\ s'.commits = s.commits /\ s'.ncommits = s.ncommits
             /\ s'.first_displayed_entry = s.first_displayed_entry
             /\ s'.last_displayed_entry = s.last_displayed_entry
             /\ s'.selected_entry = s.selected_entry
             /\ s'.selected = s.selected
             /\ s'.in_repo_path = s.in_repo_path
             /\ s'.log_complete = s.log_complete
             /\ s'.commits_needed = s.commits_needed]_vars

C25_Witness ==
    /\ hist.bs_root /\ ui.pc = "show" /\ s.in_repo_path = 0
    /\ s.thread /\ lt.pc \notin {"none", "exited"} /\ ~s.quit
    /\ s.commits # <<>> /\ s.selected_entry # NULL

\* ------------------------------------------------------------------------
\* C26
\* ------------------------------------------------------------------------
\* C26: with load_all clear and no search, the loader has appended no more
\* commits than show_log_view and log_scroll_down asked for since it
\* started, and it appends only while commits_needed is above 0.
C26_AtMostRequested ==
    /\ [](s.thread => Len(s.commits) <= hist.requested)
    /\ [][Len(s'.commits) > Len(s.commits) => s.commits_needed > 0]_vars

C26_Witness ==
    /\ lt.pc = "lt_wait" /\ s.commits_needed = 0 /\ ~s.load_all
    /\ Len(s.commits) = hist.requested
    /\ hist.requested = MaxCommits + 1

\* ------------------------------------------------------------------------
\* C27
\* ------------------------------------------------------------------------
\* C27: a wait of the UI thread on commit_loaded in trigger_log_thread is
\* always ended by a signal of the loader
C27_WaitIsWoken == (ui.pc = "cw") ~> (ui.pc # "cw")

\* ------------------------------------------------------------------------
\* C28
\* ------------------------------------------------------------------------
\* a forward search has asked the loader for more and is back in view_loop
SearchPending ==
    /\ s.searching = TOG_SEARCH_FORWARD /\ s.search_next_done = 0
    /\ ui.pc = "yield"

\* a forward search that ran off the end of the queue and went back to the
\* main loop ends with search_next_done set, unless view_loop is left on an
\* error of view->show before or the requests reach the bound MaxNeeded
SearchEnds ==
    SearchPending ~> (\/ s.search_next_done \in {TOG_SEARCH_HAVE_MORE,
                             TOG_SEARCH_NO_MORE, TOG_SEARCH_HAVE_NONE}
                      \/ ui.pc = "returned"
                      \/ s.commits_needed = MaxNeeded)

\* the index of the commit after the selected entry, or after the matched
\* entry when that one is not below the cursor: the latest position a forward
\* search begun in state st starts from
SearchStart(st) ==
    IF st.matched_entry = NULL
    THEN st.selected_entry + 1
    ELSE Min(st.selected_entry, st.matched_entry) + 1

\* a forward search that ends without a match has left no matching commit in
\* the queue after the position it began from
NoneSkipped ==
    [][(/\ s.searching = TOG_SEARCH_FORWARD /\ s.search_next_done = 0
        /\ s'.search_next_done \in {TOG_SEARCH_NO_MORE, TOG_SEARCH_HAVE_NONE})
       => \A i \in SearchStart(s)..Len(s'.commits) :
             s'.commits[i].id \notin s.regex]_vars

\* C28: every forward search that asked the loader for more ends with
\* search_next_done set, and a search that ends without a match has skipped
\* no matching commit
C28_ForwardSearch == SearchEnds /\ NoneSkipped

\* ------------------------------------------------------------------------
\* C29
\* ------------------------------------------------------------------------
\* the entry the claim has a search begin with: the one after (forward) or
\* before (backward) the selected entry, which is the matched entry as long
\* as the cursor has not moved since the match
ClaimedFirst(sc) ==
    LET from == IF sc.matched # NULL /\ sc.selected = sc.matched
                THEN sc.matched ELSE sc.selected
    IN IF sc.searching = TOG_SEARCH_FORWARD
       THEN (IF from < sc.ncommits THEN from + 1 ELSE NULL)
       ELSE from - 1

\* C29: the first entry examined by a search begun with '/', 'n' or 'N' is
\* the successor (forward) or the predecessor (backward) of the selected
\* entry
C29_FirstExamined ==
    (hist.fresh /\ hist.scan # <<>> /\ hist.scan.selected # NULL)
        => hist.scan.first = ClaimedFirst(hist.scan)

\* ------------------------------------------------------------------------
\* C30
\* ------------------------------------------------------------------------
\* C30: when view_input is entered after a forward search found a matching
\* commit, in the UI thread or in the loader, that commit is matched_entry
\* and the selected entry, and search_entry is NULL
C30_MatchSelected ==
    (/\ ui.pc = "input" /\ hist.found # NULL
     /\ s.searching = TOG_SEARCH_FORWARD
     /\ s.search_next_done = TOG_SEARCH_HAVE_MORE)
        => /\ s.matched_entry = hist.found
           /\ s.selected_entry = s.matched_entry
           /\ s.search_entry = NULL

\* ------------------------------------------------------------------------
\* C31
\* ------------------------------------------------------------------------
\* the step in which input_log_view finds load_all and log_complete set
LoadAllDone ==
    /\ ui.pc \in {"wgetch", "ilv"} /\ s.load_all /\ s.log_complete
    /\ ~s'.load_all /\ s'.log_complete
    /\ ~KeyReload("KEY_BACKSPACE")

\* a key handled while load_all is set and the log is not complete
LoadAllKey ==
    /\ ui.pc \in {"wgetch", "ilv"} /\ ui'.pc # ui.pc
    /\ s.load_all /\ ~s.log_complete
    /\ ~KeyReload("KEY_BACKSPACE")

\* view_input starts a search itself and does not pass the key to the view
SearchKey == UI_KeySearch \/ (UI_KeySearchNext /\ s.search_started)

\* once the key is handled with log_complete set, the last commit of the
\* queue is selected, on row `selected`
LoadAllSelectsLast ==
    [][(LoadAllDone /\ s'.commits # <<>>)
       => /\ s'.selected_entry = TAILQ_LAST(s'.commits)
          /\ s'.selected_entry = s'.first_displayed_entry + s'.selected]_vars

C32_ReloadResets ==
    /\ [][UI_ReloadRest =>
            /\ lt.pc = "none" /\ ~s.thread
            /\ s'.commits = <<>> /\ s'.ncommits = 0
            /\ s'.first_displayed_entry = NULL
            /\ s'.last_displayed_entry = NULL
            /\ s'.selected_entry = NULL /\ s'.selected = 0
            /\ s'.matched_entry = NULL /\ s'.search_entry = NULL
            /\ ~s'.quit /\ ~s'.log_complete
            /\ s'.commits_needed = ViewLines
            /\ ~s'.thread /\ ui'.pc = "show"]_vars
    /\ [][(UI_Show /\ ~s.thread) =>
            s'.thread /\ lt'.pc = "lt_top" /\ hist'.loaders = 1]_vars

C32_Witness ==
    /\ ui.pc \in {"trigger", "cw"} /\ hist.last_mut.op = "remove"
    /\ hist.last_mut.joined /\ s.thread /\ lt.pc = "lt_top"
    /\ s.commits = <<>> /\ s.commits_needed = ViewLines

\* ------------------------------------------------------------------------
\* C33
\* ------------------------------------------------------------------------
InList(v) == \E i \in 1..Len(vlist) : vlist[i] = v

Alive == {v \in ViewIds : views[v].alive}

\* parents are the views of the list, every other view is the one child of a
\* view of the list and has no child
TreeDepthTwo ==
    /\ \A i, j \in 1..Len(vlist) : vlist[i] = vlist[j] => i = j
    /\ \A v \in ViewIds : InList(v) => views[v].alive
    /\ \A v \in Alive :
          IF InList(v)
          THEN /\ views[v].parent = NULL
               /\ views[v].child # NULL =>
                     /\ views[views[v].child].alive
                     /\ views[views[v].child].parent = v
          ELSE /\ views[v].parent # NULL /\ InList(views[v].parent)
               /\ views[views[v].parent].child = v
               /\ views[v].child = NULL
               /\ \A p \in Alive : views[p].child = v => p = views[v].parent

\* a view opened from a parent replaces its child, a view opened from a
\* child goes to the end of the list
OpenInstalls ==
    [][KeyOpen =>
         IF views[cur].parent = NULL
         THEN LET o == views[cur].child
                  n == views'[cur].child
              IN /\ n # NULL /\ ~views[n].alive /\ views'[n].alive
                 /\ views'[n].parent = cur
                 /\ o # NULL => ~views'[o].alive
                 /\ vlist' = vlist
         ELSE LET n == vlist'[Len(vlist')]
              IN /\ vlist' # <<>> /\ ~views[n].alive /\ views'[n].alive
                 /\ views'[n].parent = NULL]_vars

\* C33: the view tree has depth at most two, and a new view becomes the
\* child of the parent it was opened from or the last view of the list
C33_DepthTwo == []TreeDepthTwo /\ OpenInstalls

\* two parent views, the second one opened from the child of the first,
\* each with a child of its own
C33_Witness ==
    /\ Len(vlist) = 2
    /\ \A i \in 1..2 : views[vlist[i]].child # NULL
    /\ Cardinality(Alive) = 4

\* ------------------------------------------------------------------------
\* C34
\* ------------------------------------------------------------------------
FocusChildHasChild ==
    \A p \in Alive :
       views[p].focus_child =>
          /\ InList(p)
          /\ views[p].child # NULL
          /\ views[views[p].child].alive

\* the view the dying block picked hands the focus to its child exactly
\* when its focus_child bit is set
PickedFocus ==
    picked # NULL =>
       /\ views[picked].alive
       /\ cur = IF views[picked].focus_child THEN views[picked].child
                ELSE picked
       /\ cur # NULL /\ views[cur].focussed

\* C34: focus_child is set only on a parent that has a child, and after a
\* view was closed the focus goes to the picked parent's child if and only
\* if the parent's focus_child is set
C34_FocusChild == ~fault /\ FocusChildHasChild /\ PickedFocus

\* a view opened from a child was closed and the focus went back to that
\* child
C34_Witness ==
    /\ picked # NULL
    /\ views[picked].focus_child
    /\ cur = views[picked].child
    /\ views[cur].focussed

\* ------------------------------------------------------------------------
\* C40
\* ------------------------------------------------------------------------
BackLinked == {d \in Alive : views[d].type = "diff" /\ views[d].log_view # NULL}

\* C40: the log view a diff view's back-link names is open, whatever views
\* were opened, closed, replaced or evicted since
C40_LogViewExists ==
    \A d \in BackLinked :
       /\ views[views[d].log_view].alive
       /\ views[views[d].log_view].type = "log"
       /\ views[views[d].log_view].child = d \/ InList(d)

\* the focussed diff view is a parent view opened from a log view that is
\* the child of another parent view
C40_Witness ==
    /\ cur \in BackLinked
    /\ InList(cur)
    /\ views[views[cur].log_view].parent # NULL
    /\ Len(vlist) = 2

\* ------------------------------------------------------------------------
\* C35
\* ------------------------------------------------------------------------
\* pack.rec is the offset at which the header of the delta record starts
BaseFromRecordStart ==
    (pack.pc = "read_base" /\ pack.delta_type = GOT_OBJ_TYPE_OFFSET_DELTA)
        => pack.base_offset = pack.rec - pack.negoffset

\* the entry appended last belongs to the record at pack.rec, the first
\* entry to the record at pack.offset
ChainSamePosition ==
    (/\ pack.pc \in {"resolve_offset_delta", "resolve_ref_delta", "done"}
     /\ Len(pack.entries) >= 2)
        => LET last == pack.entries[Len(pack.entries)]
           IN (pack.entries[1].offset = pack.offset)
                 <=> (last.offset = pack.rec)

\* C35: every offset-delta link takes its base offset from the start of the
\* delta record's header, and the offsets of the chain entries all
\* designate the same position of their records.
C35_EveryLinkFromRecordStart == BaseFromRecordStart /\ ChainSamePosition

\* ------------------------------------------------------------------------
\* C36
\* ------------------------------------------------------------------------
\* the loop of a search over n lines ends within n + 1 rounds
DiffSearchTerminates ==
    dv.pc \in {"loop", "finish"} => dv.iters <= dv.nlines + 1

\* C36: a search in the diff view terminates, and when a line of the diff
\* matches it ends on a matching line, which is then the first line
\* displayed with the selection on row 1, the first search included.
C36_SearchFindsMatch ==
    /\ DiffSearchTerminates
    /\ (dv.pc = "input" /\ dv.searched /\ dv.match # {})
          => /\ dv.matched_line \in dv.match
             /\ dv.first_displayed_line = dv.matched_line
             /\ dv.selected_line = 1

\* ------------------------------------------------------------------------
\* C37
\* ------------------------------------------------------------------------
BlamedStackRooted ==
    /\ blame.blamed_commits # <<>>
    /\ blame.blamed_commits[Len(blame.blamed_commits)] = blame.commit_id

\* C with the initial commit on top changes nothing
BlameBackNoop ==
    [][(BV_KeyBlameBack /\ Head(blame.blamed_commits) = blame.commit_id)
          => blame' = blame /\ bt' = bt]_vars

\* C with another commit on top stops the annotator and then, unless the
\* annotator had failed, pops one entry and runs blame again
BlameBackPops ==
    /\ [][(BV_KeyBlameBack /\ Head(blame.blamed_commits) # blame.commit_id)
            => /\ blame'.done /\ ui'.k = <<"pop">>
               /\ blame'.blamed_commits = blame.blamed_commits]_vars
    /\ [][(BV_Restart /\ Head(ui.k) = "pop" /\ ui.err = "NULL")
            => /\ blame'.blamed_commits = Tail(blame.blamed_commits)
               /\ blame'.lines = alloc_lines(blame'.nlines)
               /\ ~blame'.done /\ blame'.thread
               /\ bt'.pc = "blame"]_vars

KeyHandled == ui.pc \in {"show", "input", "wgetch"}

C39_NoNullSelectedUse == ui.pc # "fault"
====
